---- MODULE Spec2Model ----
(***************************************************************************)
(* Primary-drawable processing of the rbfx scene renderer:                 *)
(*   CustomView::ProcessPrimaryDrawables  (Graphics/CustomView.cpp)        *)
(*   ViewRenderer::Update                 (Graphics/ViewRenderer.cpp)      *)
(* One frame: the frustum query result is split into numThreads_ work      *)
(* items, the work queue's threads run them concurrently, and the          *)
(* submitting thread waits in WorkQueue::Complete before the per-worker    *)
(* lists are merged.                                                       *)
(*                                                                         *)
(* Floats are modelled by integers; M_LARGE_VALUE and the float limits are *)
(* scaled down so that squares stay small.                                 *)
(***************************************************************************)
EXTENDS Integers, Sequences, FiniteSets, TLC

\* ------------------------------------------------------------------ bounds

\* Largest number of drawables the octree holds in a frame.
MaxDrawables == 2
\* Largest WorkQueue::GetNumThreads() (worker threads besides the main one).
MaxWorkerThreads == 2
\* Largest frustum-query size and thread count of the partition-only runs.
MaxPartitionDrawables == 8
MaxPartitionThreads == 5
\* Largest number of CreatePipelineState calls in a run.
MaxPipelineCalls == 3
\* Largest number of visible lights and of shadow splits of a light.
MaxLights == 1
MaxSplits == 2
\* Largest number of frames rendered one after the other.
MaxFrames == 2
\* Largest number of texture handles the UI library holds at a time.
MaxHandles == 4
\* Largest number of parameters added to a ShaderParameterStorage.
MaxParameters == 3
\* Largest number of BatchRenderer calls in a run.
MaxBatchCalls == 5
\* Largest number of frames of UI events, and of renders within one frame.
MaxUIFrames == 3
MaxUIRenders == 3
\* Largest number of screen-mode events, and of touches begun.
MaxScreenModes == 2
MaxTouches == 2
\* Largest number of `parse` entries of the rules, and of files a scan of
\* one source directory finds.
MaxDirectories == 2
MaxFiles == 2
\* Largest number of C++ AST passes and of API passes, and of entities
\* cppast::visit reports for one file.
MaxPasses == 2
MaxVisits == 2

\* --------------------------------------------------------------- constants

\* M_LARGE_VALUE (Math/MathDefs.h, 100000000.0f), scaled.
M_LARGE_VALUE == 100
\* ea::numeric_limits<float>::max(), scaled; lowest() is its negation.
M_FLOAT_MAX == 1000

DRAWABLE_GEOMETRY == 1
DRAWABLE_LIGHT == 2

\* DrawableCachePerViewport::TransientTrait
DrawableVisible == 2
\* ViewRenderer::DrawableTrait
NoTraits == 0
HasBaseBatches == 1

\* ------------------------------------------------------------------- maths

Min(a, b) == IF a < b THEN a ELSE b
Max(a, b) == IF a > b THEN a ELSE b
Abs(a) == IF a < 0 THEN 0 - a ELSE a

\* a |= flag, for a single-bit flag.
BitOr(a, flag) == IF (a \div flag) % 2 = 1 THEN a ELSE a + flag
BitTest(a, flag) == (a \div flag) % 2 = 1

DotProduct(u, v) == u[1] * v[1] + u[2] * v[2] + u[3] * v[3]
LengthSquared(v) == DotProduct(v, v)
VecAbs(v) == <<Abs(v[1]), Abs(v[2]), Abs(v[3])>>

\* BoundingBox::Center and BoundingBox::Size * 0.5f.
BoxCenter(box) ==
    <<(box.min[1] + box.max[1]) \div 2, (box.min[2] + box.max[2]) \div 2,
      (box.min[3] + box.max[3]) \div 2>>
BoxHalfSize(box) ==
    <<(box.max[1] - box.min[1]) \div 2, (box.max[2] - box.min[2]) \div 2,
      (box.max[3] - box.min[3]) \div 2>>

\* NumericRange<float>: default-constructed is invalid.
InvalidRange == <<M_FLOAT_MAX, 0 - M_FLOAT_MAX>>
RangeIsValid(r) == r[1] <= r[2]
\* NumericRange::operator |=
RangeUnion(r, s) == <<Min(r[1], s[1]), Max(r[2], s[2])>>

\* The sentinel stored for "infinite" geometries.
SentinelRange == <<M_LARGE_VALUE, M_LARGE_VALUE>>

\* ------------------------------------------------------------------- scene

\* The drawables a scene is made of.  Boxes have even extents so that the
\* centre and half size are whole numbers.
DrawableKinds ==
    {"geomNear", "geomWide", "geomFar", "skybox", "skyboxFar",
     "light", "lightBlack", "lightMasked", "lightFar", "outside"}

FiniteBox == [min |-> <<-2, -2, 2>>, max |-> <<2, 2, 6>>]
WideBox == [min |-> <<-4, 0, -2>>, max |-> <<0, 2, 12>>]
FarBox == [min |-> <<0, 0, 20>>, max |-> <<2, 2, 30>>]
\* Half size (100, 0, 0): length squared is exactly M_LARGE_VALUE squared.
SkyBox == [min |-> <<-100, 0, 0>>, max |-> <<100, 0, 0>>]
HugeBox == [min |-> <<-100, -100, -100>>, max |-> <<100, 100, 100>>]
PointBox == [min |-> <<0, 0, 0>>, max |-> <<0, 0, 0>>]

Drawable(flags, drawDistance, distance, box, black, lightMask, inFrustum) ==
    [flags |-> flags, drawDistance |-> drawDistance, distance |-> distance,
     box |-> box, black |-> black, lightMask |-> lightMask,
     inFrustum |-> inFrustum]

KindOf(k) ==
    CASE k = "geomNear" -> Drawable(DRAWABLE_GEOMETRY, 3, 3, FiniteBox, FALSE, 0, TRUE)
      [] k = "geomWide" -> Drawable(DRAWABLE_GEOMETRY, 0, 5, WideBox, FALSE, 0, TRUE)
      [] k = "geomFar" -> Drawable(DRAWABLE_GEOMETRY, 2, 3, FarBox, FALSE, 0, TRUE)
      [] k = "skybox" -> Drawable(DRAWABLE_GEOMETRY, 0, 0, SkyBox, FALSE, 0, TRUE)
      [] k = "skyboxFar" -> Drawable(DRAWABLE_GEOMETRY, 2, 3, HugeBox, FALSE, 0, TRUE)
      [] k = "light" -> Drawable(DRAWABLE_LIGHT, 0, 4, PointBox, FALSE, 255, TRUE)
      [] k = "lightBlack" -> Drawable(DRAWABLE_LIGHT, 0, 4, PointBox, TRUE, 255, TRUE)
      [] k = "lightMasked" -> Drawable(DRAWABLE_LIGHT, 5, 4, PointBox, FALSE, 0, TRUE)
      [] k = "lightFar" -> Drawable(DRAWABLE_LIGHT, 2, 3, PointBox, FALSE, 255, TRUE)
      [] k = "outside" -> Drawable(DRAWABLE_GEOMETRY, 0, 9, FiniteBox, FALSE, 0, FALSE)

\* Camera::GetView(): rows 0 and 1 are not used; row 2 is (m20, m21, m22, m23).
\* The cull camera looks down the negative Z axis from z = 10.
Cameras == {[viewZ |-> <<0, 0, -1>>, m23 |-> 10]}

Implementations == {"CustomView", "ViewRenderer"}

\* ------------------------------------------------------------------- state

VARIABLES
    impl,             \* which of the two implementations runs the frame
    scene,            \* octree_->GetAllDrawables(): drawable index -> kind
    camera,           \* the cull camera
    numWorkers,       \* WorkQueue::GetNumThreads()
    pc,               \* position of the submitting (main) thread
    numThreads_,      \* number of threads including the main thread
    numDrawables_,    \* total number of drawables
    baseDrawables,    \* the frustum query's result (drawable indices)
    drawableTraits,   \* drawableTransientTraits_ / drawableTraits_
    drawableZRanges,  \* drawableZRanges_ / drawableMinMaxZ_
    visibleDrawables, \* visibleDrawables_ / tempBaseUpdate_, by thread index
    batchesUpdated,   \* drawables whose UpdateBatches ran in this frame
    workItemIndex,    \* the dispatch loop's counter
    workItems,        \* the work items added so far: their captured ranges
    queue,            \* WorkQueue: items waiting for a thread
    running,          \* WorkQueue: what each thread is executing
    completed,        \* ids of the work items that ran to completion
    shadowCall,       \* the last TestFactory::HasShadow call and its result
    cullCall,         \* the last GetEffectiveCullMode application chain
    pipelineStates,   \* Renderer: the cached pipeline states, by handle
    pipelineCalls,    \* the CreatePipelineState calls made and their results
    collected,        \* SceneBatchCollector: what the frame's Render draws
    renderPc,         \* position of CustomView::Render
    drawQueue,        \* the DrawCommandQueue of Render
    currentMaterial,  \* Render's local currentMaterial
    submitted,        \* what reached the graphics device, in order
    shadowMapAllocator, \* Render's static ShadowMapAllocator
    definedView,      \* CustomView: the members Define assigns
    defineCall,       \* the last CustomView::Define call and its result
    rml,              \* RmlRenderer: textures, their references and handles
    storage,          \* a ShaderParameterStorage
    batchRenderer,    \* BatchRenderer: accumulators and committed descriptors
    ui,               \* UI2: the per-frame render flag and what was rendered
    input,            \* Input: mouse grab, touches, and what UI2 forwarded
    parse,            \* GeneratorContext::ParseFiles and its work items
    generate,         \* GeneratorContext::Generate: position and calls made
    scissor           \* RmlRenderer: the scissor members and the last draw

\* The primary-drawable processing state.
viewVars ==
    <<impl, scene, camera, numWorkers, pc, numThreads_, numDrawables_,
      baseDrawables, drawableTraits, drawableZRanges, visibleDrawables,
      batchesUpdated, workItemIndex, workItems, queue, running, completed>>
\* The state of the TestFactory callbacks and of the pipeline-state cache.
factoryVars == <<shadowCall, cullCall, pipelineStates, pipelineCalls>>
\* The state of draw submission in CustomView::Render.
renderVars ==
    <<collected, renderPc, drawQueue, currentMaterial, submitted,
      shadowMapAllocator>>
\* The state of the components that are modelled on their own.
defineVars == <<definedView, defineCall>>
toolVars == <<input, parse, generate, scissor>>
auxVars == <<defineVars, rml, storage, batchRenderer, ui, toolVars>>
\* What primary-drawable processing does not touch.
otherVars == <<factoryVars, renderVars, auxVars>>

vars == <<viewVars, factoryVars, renderVars, auxVars>>

sceneVars == <<impl, scene, camera, numWorkers>>
cacheVars == <<drawableTraits, drawableZRanges, visibleDrawables, batchesUpdated>>
queueVars == <<workItems, queue, running, completed>>

Idle == [busy |-> FALSE, item |-> 0, fromIndex |-> 0, toIndex |-> 0, i |-> 0]

\* Drawable accessors.
GetDrawableFlags(d) == KindOf(scene[d]).flags
GetDrawDistance(d) == KindOf(scene[d]).drawDistance
GetDistance(d) == KindOf(scene[d]).distance
GetWorldBoundingBox(d) == KindOf(scene[d]).box
EffectiveColorIsBlack(d) == KindOf(scene[d]).black
GetLightMaskEffective(d) == KindOf(scene[d]).lightMask

IsGeometry(d) == BitTest(GetDrawableFlags(d), DRAWABLE_GEOMETRY)
IsLight(d) == ~IsGeometry(d) /\ BitTest(GetDrawableFlags(d), DRAWABLE_LIGHT)

\* FrustumOctreeQuery: the drawables inside the frustum, each once, in the
\* octree's order (here: descending drawable index).
RECURSIVE QueryFrom(_, _)
QueryFrom(sc, d) ==
    IF d < 0 THEN <<>>
    ELSE IF KindOf(sc[d]).inFrustum THEN <<d>> \o QueryFrom(sc, d - 1)
    ELSE QueryFrom(sc, d - 1)
FrustumOctreeQuery(sc, n) == QueryFrom(sc, n - 1)

\* ------------------------------------------------------------ partitioning

\* Mutations of the partitioning: rounding down instead of up, a range
\* starting one index early, an end not clamped to the drawable count, an
\* end one index late.
DrawablesPerItem_Floor(n, w) == n \div w
FromIndex_OneEarly(k, perItem) == IF k * perItem = 0 THEN 0 ELSE k * perItem - 1
ToIndex_Unclamped(k, perItem, n) == (k + 1) * perItem
ToIndex_OneLate(k, perItem, n) ==
    IF (k + 1) * perItem + 1 < n THEN (k + 1) * perItem + 1 ELSE n

\* drawablesPerItem = (drawables.size() + numThreads_ - 1) / numThreads_
DrawablesPerItem(n, w) == (n + w - 1) \div w
\* fromIndex = workItemIndex * drawablesPerItem
FromIndex(k, perItem) == k * perItem
\* toIndex = ea::min((workItemIndex + 1) * drawablesPerItem, drawables.size())
ToIndex(k, perItem, n) == Min((k + 1) * perItem, n)

\* ----------------------------------------------------------- frame set-up

\* ea::vector::resize: old elements are kept, new ones value-initialised.
Resize(old, n, fresh) ==
    [d \in 0 .. n - 1 |-> IF d \in DOMAIN old THEN old[d] ELSE fresh]

\* DrawableCachePerWorker{}
EmptyWorkerCache == [geometries |-> <<>>, lights |-> <<>>, zRange |-> InvalidRange]

\* Mutation: the trait array is resized but not filled.
Reset_NoFill(cache, numDrawables, numThreads) ==
    [traits |-> Resize(cache.traits, numDrawables, 0),
     zRanges |-> Resize(cache.zRanges, numDrawables, InvalidRange),
     workers |-> [t \in 0 .. numThreads - 1 |-> EmptyWorkerCache]]

\* DrawableCachePerViewport::Reset(numDrawables, numWorkers), on the cache
\* [traits, zRanges, workers] it is called on.
Reset(cache, numDrawables, numThreads) ==
    [traits |-> [d \in 0 .. numDrawables - 1 |-> 0],
     zRanges |-> Resize(cache.zRanges, numDrawables, InvalidRange),
     workers |-> [t \in 0 .. numThreads - 1 |-> EmptyWorkerCache]]

\* A default-constructed DrawableCachePerViewport (the local of Render).
FreshCache == [traits |-> <<>>, zRanges |-> <<>>, workers |-> <<>>]

\* PerWorkerBaseUpdate::Clear()
ClearedBaseUpdate ==
    [geometries |-> <<>>, lights |-> <<>>,
     zRange |-> <<M_LARGE_VALUE, 0 - M_LARGE_VALUE>>]

\* No call made yet.
NoCall == [op |-> "none"]

\* TestFactory and the renderer's pipeline-state cache after construction.
FactoryInit ==
    /\ shadowCall = NoCall
    /\ cullCall = NoCall
    /\ pipelineStates = <<>>
    /\ pipelineCalls = <<>>

\* Render has not been entered: nothing collected, queued or submitted.
NoBatch == <<"none", 0, 0, 0>>
NoFrame == [visibleLights |-> <<>>, baseBatches |-> <<>>,
            lightBatches |-> <<>>, mainLight |-> 0,
            nullState |-> NoBatch, shadowMaps |-> <<>>, frameNumber |-> 0]
RenderIdle == [stage |-> "idle", light |-> 0, split |-> 0, batch |-> 0]
EmptyQueue == [commands |-> <<>>, groups |-> {}]
RenderInit ==
    /\ collected = NoFrame
    /\ renderPc = RenderIdle
    /\ drawQueue = EmptyQueue
    /\ currentMaterial = 0
    /\ submitted = <<>>
    /\ shadowMapAllocator = [resets |-> 0, allocated |-> 0, begun |-> <<>>]

\* A CustomView on which Define never succeeded: no scene, camera, octree,
\* render target or viewport (0 is nullptr).
NoView == [scene_ |-> FALSE, camera_ |-> FALSE, octree_ |-> FALSE,
           numDrawables_ |-> 0, renderTarget_ |-> 0, viewport_ |-> 0]

\* Textures: 1 is the texture the resource cache holds (with the cache's
\* own reference), the others are created by GenerateTexture; 0 is the
\* null handle.
TextureIds == 1 .. MaxHandles + 1
NoTextures ==
    [refs |-> [t \in TextureIds |-> IF t = 1 THEN 1 ELSE 0],
     alive |-> {1},
     held |-> [t \in TextureIds |-> 0],
     call |-> NoCall]

\* A ShaderParameterStorage after construction: five empty vectors.
EmptyStorage ==
    [names_ |-> <<>>, indices_ |-> <<>>, dataOffsets_ |-> <<>>,
     dataSizes_ |-> <<>>, data_ |-> <<>>]

\* GroupDesc{} and InstanceDesc{}.
ZeroGroupDesc ==
    [parameterOffset_ |-> 0, numParameters_ |-> 0,
     instanceOffset_ |-> 0, numInstances_ |-> 0]
ZeroInstanceDesc == [parameterOffset_ |-> 0, numParameters_ |-> 0]

\* No UI2 object yet, and Graphics without a screen mode.  `contexts`
\* counts the Rml contexts created, `screenModes` the screen-mode events,
\* `rendered` the context renders of each frame.
NoUI ==
    [constructed |-> FALSE, graphicsInitialized |-> FALSE,
     initialized_ |-> FALSE, rmlContext_ |-> FALSE, subscribed |-> FALSE,
     contexts |-> 0, screenModes |-> 0,
     uiRendered_ |-> FALSE, rendered |-> <<0>>]
\* Input with the mouse not grabbed and no finger down; nothing forwarded.
NoInput == [mouseGrabbed |-> FALSE, touches |-> {}, begun |-> 0, forwarded |-> <<>>]
\* ParseFiles not called yet: no file parsed, no mutex, no work item.
\* `expected` collects the included files whose parse succeeds, `racing`
\* tells whether an item ran without its mutex and lambda, `contended`
\* whether an item came to the lock while another held it.
NoParse ==
    [pc |-> "idle", dir |-> 0, sourceFiles |-> <<>>, next |-> 0,
     mAlive |-> FALSE, m |-> 0, items |-> <<>>, parsed_ |-> {},
     expected |-> {}, racing |-> FALSE, contended |-> FALSE]
\* Generate not called yet.  last is the last call made on a pass (of an
\* API pass its Start or Stop) and tick changes with every such call,
\* visits holds the Visit calls of the API pass that is running, stack the
\* activations of visitOverlayEntity.
NoGenerate ==
    [pc |-> "idle", numCpp |-> 0, numApi |-> 0, numFiles |-> 0,
     pass |-> 0, file |-> 0, visited |-> 0,
     last |-> [kind |-> "none", pass |-> 0, op |-> "none", file |-> 0],
     tick |-> FALSE, visits |-> <<>>, stack |-> <<>>,
     children_ |-> <<<<2, 3>>, <<4>>, <<5>>, <<>>, <<>>, <<>>>>]
\* RmlRenderer: scissor test off, IntRect::ZERO, nothing drawn.
NoScissor ==
    [scrissorEnabled_ |-> FALSE,
     scissor_ |-> [left_ |-> 0, top_ |-> 0, right_ |-> 0, bottom_ |-> 0],
     call |-> NoCall, draw |-> NoCall]

\* The components modelled on their own, after construction.
AuxInit ==
    /\ definedView = NoView
    /\ defineCall = NoCall
    /\ rml = NoTextures
    /\ storage = [vectors |-> EmptyStorage, added |-> <<>>]
    /\ batchRenderer =
        [groups_ |-> <<>>, instances_ |-> <<>>,
         groupParameters_ |-> EmptyStorage,
         instanceParameters_ |-> EmptyStorage,
         currentGroup_ |-> ZeroGroupDesc,
         currentInstance_ |-> ZeroInstanceDesc,
         calls |-> <<>>]
    /\ ui = NoUI
    /\ input = NoInput
    /\ parse = NoParse
    /\ generate = NoGenerate
    /\ scissor = NoScissor

Init ==
    /\ impl \in Implementations
    /\ scene \in [0 .. MaxDrawables - 1 -> DrawableKinds]
    /\ camera \in Cameras
    /\ numWorkers \in 0 .. MaxWorkerThreads
    /\ pc = "idle"
    /\ numThreads_ = 0
    /\ numDrawables_ = 0
    /\ baseDrawables = <<>>
    /\ drawableTraits = <<>>
    /\ drawableZRanges = <<>>
    /\ visibleDrawables = <<>>
    /\ batchesUpdated = {}
    /\ workItemIndex = 0
    /\ workItems = <<>>
    /\ queue = <<>>
    /\ running = [t \in 0 .. numWorkers |-> Idle]
    /\ completed = {}
    /\ FactoryInit
    /\ RenderInit
    /\ AuxInit

\* CustomView::Define, CustomView::Update and CustomView::Render up to the
\* call of ProcessPrimaryDrawables.
CustomViewBeginFrame ==
    /\ pc = "idle"
    /\ impl = "CustomView"
    /\ LET n == Cardinality(DOMAIN scene)
           w == numWorkers + 1
           cache == Reset(FreshCache, n, w)
       IN /\ numDrawables_' = n
          /\ numThreads_' = w
          /\ baseDrawables' = FrustumOctreeQuery(scene, n)
          /\ drawableTraits' = cache.traits
          /\ drawableZRanges' = cache.zRanges
          /\ visibleDrawables' = cache.workers
    /\ batchesUpdated' = {}
    /\ workItemIndex' = 0
    /\ pc' = "dispatch"
    /\ UNCHANGED otherVars
    /\ UNCHANGED <<sceneVars, queueVars>>

\* ViewRenderer::Update up to the dispatch loop.
ViewRendererBeginUpdate ==
    /\ pc = "idle"
    /\ impl = "ViewRenderer"
    /\ LET n == Cardinality(DOMAIN scene)
           w == numWorkers + 1
       IN /\ numThreads_' = w
          /\ visibleDrawables' = [t \in 0 .. w - 1 |-> ClearedBaseUpdate]
          /\ numDrawables_' = n
          /\ drawableTraits' = [d \in 0 .. n - 1 |-> NoTraits]
          /\ drawableZRanges' = Resize(drawableZRanges, n, <<0, 0>>)
          /\ baseDrawables' = FrustumOctreeQuery(scene, n)
    /\ batchesUpdated' = {}
    /\ workItemIndex' = 0
    /\ pc' = "dispatch"
    /\ UNCHANGED otherVars
    /\ UNCHANGED <<sceneVars, queueVars>>

\* ---------------------------------------------------------------- dispatch

\* WorkQueue::AddWorkItem: the item waits at the back of the queue.
AddWorkItem(q, item) == Append(q, item)

\* One iteration of the dispatch loop; after the last one the submitting
\* thread calls WorkQueue::Complete.
DispatchWorkItem ==
    /\ pc = "dispatch"
    /\ workItemIndex < numThreads_
    /\ LET perItem == DrawablesPerItem(Len(baseDrawables), numThreads_)
           item == [id |-> workItemIndex,
                    fromIndex |-> FromIndex(workItemIndex, perItem),
                    toIndex |-> ToIndex(workItemIndex, perItem, Len(baseDrawables))]
       IN /\ queue' = AddWorkItem(queue, item)
          /\ workItems' = Append(workItems, item)
    /\ workItemIndex' = workItemIndex + 1
    /\ pc' = IF workItemIndex + 1 < numThreads_ THEN "dispatch" ELSE "complete"
    /\ UNCHANGED otherVars
    /\ UNCHANGED <<sceneVars, numThreads_, numDrawables_, baseDrawables,
                   cacheVars, running, completed>>

\* -------------------------------------------------------------- work queue

\* The threads that may pick up a queued item: the worker threads (1 ..
\* GetNumThreads()) at any time, the main thread (0) only inside Complete.
MayTake(t) == t >= 1 \/ pc = "complete"

\* A free thread takes the item at the front of the queue and calls its
\* function with its own thread index.
TakeWorkItem(t) ==
    /\ MayTake(t)
    /\ ~running[t].busy
    /\ queue # <<>>
    /\ LET item == Head(queue)
       IN running' = [running EXCEPT ![t] =
              [busy |-> TRUE, item |-> item.id, fromIndex |-> item.fromIndex,
               toIndex |-> item.toIndex, i |-> item.fromIndex]]
    /\ queue' = Tail(queue)
    /\ UNCHANGED otherVars
    /\ UNCHANGED <<sceneVars, pc, numThreads_, numDrawables_, baseDrawables,
                   cacheVars, workItemIndex, workItems, completed>>

\* WorkQueue::Complete(M_MAX_UNSIGNED) returns once no item is queued and no
\* thread is executing one.
CompleteCanReturn == queue = <<>> /\ \A t \in DOMAIN running : ~running[t].busy

\* ++i in the work item's loop on thread t; when the range is exhausted the
\* function returns and the thread is free again.
AdvanceLoop(t) ==
    IF running[t].i + 1 < running[t].toIndex
    THEN [running EXCEPT ![t].i = @ + 1]
    ELSE [running EXCEPT ![t] = Idle]
CompletedAfter(t) ==
    IF running[t].i + 1 < running[t].toIndex THEN completed
    ELSE completed \cup {running[t].item}

\* --------------------------------------------- CustomView: one drawable

\* Mutation: the distance comparison inverted.
TooFar_Inverted(d) ==
    GetDrawDistance(d) > 0 /\ GetDistance(d) < GetDrawDistance(d)

\* "Skip if too far"
TooFar(d) ==
    LET maxDistance == GetDrawDistance(d)
    IN maxDistance > 0 /\ GetDistance(d) > maxDistance

\* Mutation: the "infinite" threshold compared with > instead of >=.
Evaluate_StrictThreshold(d) ==
    LET center == BoxCenter(GetWorldBoundingBox(d))
        edge == BoxHalfSize(GetWorldBoundingBox(d))
        viewCenterZ == DotProduct(camera.viewZ, center) + camera.m23
        viewEdgeZ == DotProduct(VecAbs(camera.viewZ), edge)
    IN IF LengthSquared(edge) > M_LARGE_VALUE * M_LARGE_VALUE
       THEN <<M_FLOAT_MAX, 0 - M_FLOAT_MAX>>
       ELSE <<viewCenterZ - viewEdgeZ, viewCenterZ + viewEdgeZ>>

\* DrawableZRangeEvaluator::Evaluate
Evaluate(d) ==
    LET boundingBox == GetWorldBoundingBox(d)
        center == BoxCenter(boundingBox)
        edge == BoxHalfSize(boundingBox)
        viewCenterZ == DotProduct(camera.viewZ, center) + camera.m23
        viewEdgeZ == DotProduct(VecAbs(camera.viewZ), edge)
    IN IF LengthSquared(edge) >= M_LARGE_VALUE * M_LARGE_VALUE THEN InvalidRange
       ELSE <<viewCenterZ - viewEdgeZ, viewCenterZ + viewEdgeZ>>

\* Mutation: the light mask is not looked at.
LightIsLit_ColorOnly(d) == ~EffectiveColorIsBlack(d)

\* "Skip lights with zero brightness or black color"
LightIsLit(d) == ~EffectiveColorIsBlack(d) /\ GetLightMaskEffective(d) # 0

\* Mutation: the drawable is inserted at the front.
PushFront(list, d) == <<d>> \o list

\* ea::vector::push_back
PushBack(list, d) == Append(list, d)

\* ProcessPrimaryDrawable(drawable, zRangeEvaluator, cache, workerCache):
\* the cache [traits, zRanges] and the worker cache after the call.
ProcessPrimaryDrawable(d, cache, workerCache) ==
    LET traits == [cache.traits EXCEPT ![d] = BitOr(@, DrawableVisible)]
        zRange == Evaluate(d)
    IN IF TooFar(d)
       THEN [traits |-> traits, zRanges |-> cache.zRanges, worker |-> workerCache]
       ELSE IF IsGeometry(d)
       THEN IF ~RangeIsValid(zRange)
            THEN [traits |-> traits,
                  zRanges |-> [cache.zRanges EXCEPT ![d] = SentinelRange],
                  worker |-> [workerCache EXCEPT
                                 !.geometries = PushBack(@, d)]]
            ELSE [traits |-> traits,
                  zRanges |-> [cache.zRanges EXCEPT ![d] = zRange],
                  worker |-> [workerCache EXCEPT
                                 !.zRange = RangeUnion(@, zRange),
                                 !.geometries = PushBack(@, d)]]
       ELSE IF BitTest(GetDrawableFlags(d), DRAWABLE_LIGHT) /\ LightIsLit(d)
       THEN [traits |-> traits, zRanges |-> cache.zRanges,
             worker |-> [workerCache EXCEPT !.lights = PushBack(@, d)]]
       ELSE [traits |-> traits, zRanges |-> cache.zRanges, worker |-> workerCache]

\* Mutation: the distance test comes first and a too-far drawable gets no
\* batch update.
CustomViewProcessDrawable_SkipsUpdate(t) ==
    /\ impl = "CustomView"
    /\ running[t].busy
    /\ running[t].i < running[t].toIndex
    /\ LET drawable == baseDrawables[running[t].i + 1]
           result == ProcessPrimaryDrawable(drawable,
                         [traits |-> drawableTraits, zRanges |-> drawableZRanges],
                         visibleDrawables[t])
       IN /\ batchesUpdated' =
                 IF GetDrawDistance(drawable) > 0
                    /\ GetDistance(drawable) > GetDrawDistance(drawable)
                 THEN batchesUpdated
                 ELSE batchesUpdated \cup {drawable}
          /\ drawableTraits' = result.traits
          /\ drawableZRanges' = result.zRanges
          /\ visibleDrawables' = [visibleDrawables EXCEPT ![t] = result.worker]
    /\ running' = AdvanceLoop(t)
    /\ completed' = CompletedAfter(t)
    /\ UNCHANGED otherVars
    /\ UNCHANGED <<sceneVars, pc, numThreads_, numDrawables_, baseDrawables,
                   workItemIndex, workItems, queue>>

\* One iteration of the work item's loop in ProcessPrimaryDrawables, run by
\* thread t: UpdateBatches, then ProcessPrimaryDrawable.
CustomViewProcessDrawable(t) ==
    /\ impl = "CustomView"
    /\ running[t].busy
    /\ running[t].i < running[t].toIndex
    /\ LET drawable == baseDrawables[running[t].i + 1]
           result == ProcessPrimaryDrawable(drawable,
                         [traits |-> drawableTraits, zRanges |-> drawableZRanges],
                         visibleDrawables[t])
       IN /\ batchesUpdated' = batchesUpdated \cup {drawable}
          /\ drawableTraits' = result.traits
          /\ drawableZRanges' = result.zRanges
          /\ visibleDrawables' = [visibleDrawables EXCEPT ![t] = result.worker]
    /\ running' = AdvanceLoop(t)
    /\ completed' = CompletedAfter(t)
    /\ UNCHANGED otherVars
    /\ UNCHANGED <<sceneVars, pc, numThreads_, numDrawables_, baseDrawables,
                   workItemIndex, workItems, queue>>

\* ------------------------------------------- ViewRenderer: one drawable

\* Mutation: the maximum Z of the worker is not updated.
UpdateDrawable_NoMax(d, buffers, result) ==
    LET traits == [buffers.traits EXCEPT ![d] = BitOr(@, HasBaseBatches)]
        maxDistance == GetDrawDistance(d)
        geomBox == GetWorldBoundingBox(d)
        center == BoxCenter(geomBox)
        edge == BoxHalfSize(geomBox)
        viewZ == camera.viewZ
        absViewZ == VecAbs(viewZ)
        viewCenterZ == DotProduct(viewZ, center) + camera.m23
        viewEdgeZ == DotProduct(absViewZ, edge)
        minZ == viewCenterZ - viewEdgeZ
        maxZ == viewCenterZ + viewEdgeZ
    IN IF maxDistance > 0 /\ GetDistance(d) > maxDistance
       THEN [traits |-> traits, zRanges |-> buffers.zRanges, worker |-> result]
       ELSE IF BitTest(GetDrawableFlags(d), DRAWABLE_GEOMETRY)
       THEN IF LengthSquared(edge) >= M_LARGE_VALUE * M_LARGE_VALUE
            THEN [traits |-> traits,
                  zRanges |-> [buffers.zRanges EXCEPT
                                  ![d] = <<M_LARGE_VALUE, M_LARGE_VALUE>>],
                  worker |-> [result EXCEPT !.geometries = Append(@, d)]]
            ELSE [traits |-> traits,
                  zRanges |-> [buffers.zRanges EXCEPT ![d] = <<minZ, maxZ>>],
                  worker |-> [result EXCEPT
                                 !.zRange = <<Min(@[1], minZ), @[2]>>,
                                 !.geometries = Append(@, d)]]
       ELSE IF BitTest(GetDrawableFlags(d), DRAWABLE_LIGHT)
               /\ ~EffectiveColorIsBlack(d) /\ GetLightMaskEffective(d) # 0
       THEN [traits |-> traits, zRanges |-> buffers.zRanges,
             worker |-> [result EXCEPT !.lights = Append(@, d)]]
       ELSE [traits |-> traits, zRanges |-> buffers.zRanges, worker |-> result]

\* The body of the work item's loop in ViewRenderer::Update for drawable d,
\* after UpdateBatches: the buffers [traits, zRanges] and the worker's
\* result after the iteration.
UpdateDrawable(d, buffers, result) ==
    LET traits == [buffers.traits EXCEPT ![d] = BitOr(@, HasBaseBatches)]
        maxDistance == GetDrawDistance(d)
        geomBox == GetWorldBoundingBox(d)
        center == BoxCenter(geomBox)
        edge == BoxHalfSize(geomBox)
        viewZ == camera.viewZ
        absViewZ == VecAbs(viewZ)
        viewCenterZ == DotProduct(viewZ, center) + camera.m23
        viewEdgeZ == DotProduct(absViewZ, edge)
        minZ == viewCenterZ - viewEdgeZ
        maxZ == viewCenterZ + viewEdgeZ
    IN IF maxDistance > 0 /\ GetDistance(d) > maxDistance
       THEN [traits |-> traits, zRanges |-> buffers.zRanges, worker |-> result]
       ELSE IF BitTest(GetDrawableFlags(d), DRAWABLE_GEOMETRY)
       THEN IF LengthSquared(edge) >= M_LARGE_VALUE * M_LARGE_VALUE
            THEN [traits |-> traits,
                  zRanges |-> [buffers.zRanges EXCEPT
                                  ![d] = <<M_LARGE_VALUE, M_LARGE_VALUE>>],
                  worker |-> [result EXCEPT !.geometries = Append(@, d)]]
            ELSE [traits |-> traits,
                  zRanges |-> [buffers.zRanges EXCEPT ![d] = <<minZ, maxZ>>],
                  worker |-> [result EXCEPT
                                 !.zRange = <<Min(@[1], minZ), Max(@[2], maxZ)>>,
                                 !.geometries = Append(@, d)]]
       ELSE IF BitTest(GetDrawableFlags(d), DRAWABLE_LIGHT)
               /\ ~EffectiveColorIsBlack(d) /\ GetLightMaskEffective(d) # 0
       THEN [traits |-> traits, zRanges |-> buffers.zRanges,
             worker |-> [result EXCEPT !.lights = Append(@, d)]]
       ELSE [traits |-> traits, zRanges |-> buffers.zRanges, worker |-> result]

\* One iteration of the work item's loop in ViewRenderer::Update, run by
\* thread t.
ViewRendererProcessDrawable(t) ==
    /\ impl = "ViewRenderer"
    /\ running[t].busy
    /\ running[t].i < running[t].toIndex
    /\ LET drawable == baseDrawables[running[t].i + 1]
           result == UpdateDrawable(drawable,
                         [traits |-> drawableTraits, zRanges |-> drawableZRanges],
                         visibleDrawables[t])
       IN /\ batchesUpdated' = batchesUpdated \cup {drawable}
          /\ drawableTraits' = result.traits
          /\ drawableZRanges' = result.zRanges
          /\ visibleDrawables' = [visibleDrawables EXCEPT ![t] = result.worker]
    /\ running' = AdvanceLoop(t)
    /\ completed' = CompletedAfter(t)
    /\ UNCHANGED otherVars
    /\ UNCHANGED <<sceneVars, pc, numThreads_, numDrawables_, baseDrawables,
                   workItemIndex, workItems, queue>>

\* A work item whose range is empty: the loop body never runs and the
\* function returns to the work queue.
FinishWorkItem(t) ==
    /\ running[t].busy
    /\ running[t].i >= running[t].toIndex
    /\ completed' = completed \cup {running[t].item}
    /\ running' = [running EXCEPT ![t] = Idle]
    /\ UNCHANGED otherVars
    /\ UNCHANGED <<sceneVars, pc, numThreads_, numDrawables_, baseDrawables,
                   cacheVars, workItemIndex, workItems, queue>>

\* Mutation: the function returns after dispatch without waiting.
ReturnWithoutComplete ==
    /\ pc = "complete"
    /\ pc' = "returned"
    /\ UNCHANGED otherVars
    /\ UNCHANGED <<sceneVars, numThreads_, numDrawables_, baseDrawables,
                   cacheVars, workItemIndex, queueVars>>

\* workQueue_->Complete(M_MAX_UNSIGNED) returns and with it
\* ProcessPrimaryDrawables / ViewRenderer::Update.
CompleteAndReturn ==
    /\ pc = "complete"
    /\ CompleteCanReturn
    /\ pc' = "returned"
    /\ UNCHANGED otherVars
    /\ UNCHANGED <<sceneVars, numThreads_, numDrawables_, baseDrawables,
                   cacheVars, workItemIndex, queueVars>>

\* The loops over the per-worker caches in CustomView::Render and
\* ViewRenderer::RenderScenePass: the lists concatenated in slot order.
RECURSIVE MergedFrom(_, _, _)
MergedFrom(workers, t, field) ==
    IF t \notin DOMAIN workers THEN <<>>
    ELSE workers[t][field] \o MergedFrom(workers, t + 1, field)
MergedGeometries == MergedFrom(visibleDrawables, 0, "geometries")
MergedLights == MergedFrom(visibleDrawables, 0, "lights")

Next ==
    \/ CustomViewBeginFrame
    \/ ViewRendererBeginUpdate
    \/ DispatchWorkItem
    \/ \E t \in DOMAIN running : TakeWorkItem(t)
    \/ \E t \in DOMAIN running : CustomViewProcessDrawable(t)
    \/ \E t \in DOMAIN running : ViewRendererProcessDrawable(t)
    \/ \E t \in DOMAIN running : FinishWorkItem(t)
    \/ CompleteAndReturn

Spec == Init /\ [][Next]_vars

\* Partitioning alone: the frame is set up for a query of n drawables and w
\* threads, and the dispatch loop runs; no thread takes an item.
InitPartition ==
    /\ impl \in Implementations
    /\ \E n \in 0 .. MaxPartitionDrawables :
          /\ scene = [d \in 0 .. n - 1 |-> "geomNear"]
          /\ numDrawables_ = n
          /\ baseDrawables = FrustumOctreeQuery(scene, n)
          /\ drawableTraits = [d \in 0 .. n - 1 |-> 0]
          /\ drawableZRanges = [d \in 0 .. n - 1 |-> InvalidRange]
    /\ camera \in Cameras
    /\ numWorkers \in 0 .. MaxPartitionThreads - 1
    /\ pc = "dispatch"
    /\ numThreads_ = numWorkers + 1
    /\ visibleDrawables = [t \in 0 .. numWorkers |-> EmptyWorkerCache]
    /\ batchesUpdated = {}
    /\ workItemIndex = 0
    /\ workItems = <<>>
    /\ queue = <<>>
    /\ running = [t \in 0 .. numWorkers |-> Idle]
    /\ completed = {}
    /\ FactoryInit
    /\ RenderInit
    /\ AuxInit

NextPartition == DispatchWorkItem

SpecPartition == InitPartition /\ [][NextPartition]_vars

\* ---------------------------------------------------- frames in sequence

\* The drawables the application adds between the engine's calls.
SceneChangeKinds == {"geomNear", "light", "outside"}

\* CustomView::Define(renderTarget, viewport): the drawable count is captured.
Define ==
    /\ impl = "CustomView"
    /\ pc = "idle"
    /\ numDrawables_' = Cardinality(DOMAIN scene)
    /\ pc' = "defined"
    /\ UNCHANGED otherVars
    /\ UNCHANGED <<sceneVars, numThreads_, baseDrawables, cacheVars,
                   workItemIndex, queueVars>>

\* CustomView::Update(frameInfo).
Update ==
    /\ impl = "CustomView"
    /\ pc = "defined"
    /\ numThreads_' = numWorkers + 1
    /\ pc' = "updated"
    /\ UNCHANGED otherVars
    /\ UNCHANGED <<sceneVars, numDrawables_, baseDrawables, cacheVars,
                   workItemIndex, queueVars>>

\* CustomView::Render up to the dispatch loop of ProcessPrimaryDrawables:
\* the frustum is queried now, and the local cache is reset to the counts
\* captured by Define and Update.
Render ==
    /\ impl = "CustomView"
    /\ pc = "updated"
    /\ baseDrawables' = FrustumOctreeQuery(scene, Cardinality(DOMAIN scene))
    /\ LET cache == Reset(FreshCache, numDrawables_, numThreads_)
       IN /\ drawableTraits' = cache.traits
          /\ drawableZRanges' = cache.zRanges
          /\ visibleDrawables' = cache.workers
    /\ batchesUpdated' = {}
    /\ workItemIndex' = 0
    /\ pc' = "dispatch"
    /\ UNCHANGED otherVars
    /\ UNCHANGED <<sceneVars, numThreads_, numDrawables_, queueVars>>

\* The main thread is outside Define, Update and Render: the application
\* may change the scene.
BetweenCalls == pc \in {"idle", "defined", "updated"}

\* A drawable is added to the octree: it gets the next drawable index.
AddDrawable(kind) ==
    /\ BetweenCalls
    /\ Cardinality(DOMAIN scene) < MaxDrawables
    /\ scene' = [d \in 0 .. Cardinality(DOMAIN scene) |->
                    IF d \in DOMAIN scene THEN scene[d] ELSE kind]
    /\ UNCHANGED otherVars
    /\ UNCHANGED <<impl, camera, numWorkers, pc, numThreads_, numDrawables_,
                   baseDrawables, cacheVars, workItemIndex, queueVars>>

\* The drawable with the highest index is removed from the octree.
RemoveDrawable ==
    /\ BetweenCalls
    /\ Cardinality(DOMAIN scene) > 0
    /\ scene' = [d \in 0 .. Cardinality(DOMAIN scene) - 2 |-> scene[d]]
    /\ UNCHANGED otherVars
    /\ UNCHANGED <<impl, camera, numWorkers, pc, numThreads_, numDrawables_,
                   baseDrawables, cacheVars, workItemIndex, queueVars>>

\* Render / ViewRenderer::Update has returned to the engine's frame loop.
FrameReturns ==
    /\ pc = "returned"
    /\ pc' = "idle"
    /\ workItems' = <<>>
    /\ completed' = {}
    /\ UNCHANGED otherVars
    /\ UNCHANGED <<sceneVars, numThreads_, numDrawables_, baseDrawables,
                   cacheVars, workItemIndex, queue, running>>

\* operator[] of the per-drawable arrays and of the per-worker array is
\* inside the array for the loop iteration thread t is about to run.
IndexInRange(t) ==
    /\ running[t].busy
    /\ running[t].i < running[t].toIndex
    /\ baseDrawables[running[t].i + 1] \in DOMAIN drawableTraits
    /\ baseDrawables[running[t].i + 1] \in DOMAIN drawableZRanges
    /\ t \in DOMAIN visibleDrawables

\* The loop iteration indexes past the end of an array: the behaviour is
\* undefined.  Either the process stops, or the write lands outside the
\* arrays and the loop goes on.
OutOfRangeAccess(t) ==
    /\ running[t].busy
    /\ running[t].i < running[t].toIndex
    /\ ~IndexInRange(t)
    /\ \/ /\ pc' = "undefined"
          /\ UNCHANGED <<running, completed>>
       \/ /\ running' = AdvanceLoop(t)
          /\ completed' = CompletedAfter(t)
          /\ pc' = pc
    /\ UNCHANGED otherVars
    /\ UNCHANGED <<sceneVars, numThreads_, numDrawables_, baseDrawables,
                   cacheVars, workItemIndex, workItems, queue>>

\* Both implementations over a run of frames, from an empty scene.
InitFrames ==
    /\ impl \in Implementations
    /\ scene = <<>>
    /\ camera \in Cameras
    /\ numWorkers \in 0 .. MaxWorkerThreads
    /\ pc = "idle"
    /\ numThreads_ = 0
    /\ numDrawables_ = 0
    /\ baseDrawables = <<>>
    /\ drawableTraits = <<>>
    /\ drawableZRanges = <<>>
    /\ visibleDrawables = <<>>
    /\ batchesUpdated = {}
    /\ workItemIndex = 0
    /\ workItems = <<>>
    /\ queue = <<>>
    /\ running = [t \in 0 .. numWorkers |-> Idle]
    /\ completed = {}
    /\ FactoryInit
    /\ RenderInit
    /\ AuxInit

NextFrames ==
    \/ Define
    \/ Update
    \/ Render
    \/ ViewRendererBeginUpdate
    \/ \E kind \in SceneChangeKinds : AddDrawable(kind)
    \/ RemoveDrawable
    \/ DispatchWorkItem
    \/ \E t \in DOMAIN running : pc # "undefined" /\ TakeWorkItem(t)
    \/ \E t \in DOMAIN running :
          pc # "undefined" /\ IndexInRange(t) /\ CustomViewProcessDrawable(t)
    \/ \E t \in DOMAIN running :
          pc # "undefined" /\ IndexInRange(t) /\ ViewRendererProcessDrawable(t)
    \/ \E t \in DOMAIN running : pc # "undefined" /\ OutOfRangeAccess(t)
    \/ \E t \in DOMAIN running : pc # "undefined" /\ FinishWorkItem(t)
    \/ CompleteAndReturn
    \/ FrameReturns

SpecFrames == InitFrames /\ [][NextFrames]_vars

\* CustomView::CollectDrawables and CustomView::ResetViewportCache(cache)
\* called through the CustomViewportDriver interface by a caller that keeps
\* its DrawableCachePerViewport from frame to frame, followed by
\* ProcessPrimaryDrawables up to its dispatch loop.
ResetViewportCache ==
    /\ impl = "CustomView"
    /\ pc = "updated"
    /\ baseDrawables' = FrustumOctreeQuery(scene, Cardinality(DOMAIN scene))
    /\ LET kept == [traits |-> drawableTraits, zRanges |-> drawableZRanges,
                    workers |-> visibleDrawables]
           cache == Reset(kept, numDrawables_, numThreads_)
       IN /\ drawableTraits' = cache.traits
          /\ drawableZRanges' = cache.zRanges
          /\ visibleDrawables' = cache.workers
    /\ batchesUpdated' = {}
    /\ workItemIndex' = 0
    /\ pc' = "dispatch"
    /\ UNCHANGED otherVars
    /\ UNCHANGED <<sceneVars, numThreads_, numDrawables_, queueVars>>

\* A geometry moves out of the camera's frustum between two frames.
MoveOutOfFrustum ==
    /\ BetweenCalls
    /\ \E d \in DOMAIN scene :
        /\ scene[d] = "geomNear"
        /\ scene' = [scene EXCEPT ![d] = "outside"]
    /\ UNCHANGED otherVars
    /\ UNCHANGED <<impl, camera, numWorkers, pc, numThreads_, numDrawables_,
                   baseDrawables, cacheVars, workItemIndex, queueVars>>

\* A run of frames in which the caches are kept from frame to frame.
NextReuse ==
    \/ Define
    \/ Update
    \/ Render
    \/ ResetViewportCache
    \/ ViewRendererBeginUpdate
    \/ AddDrawable("geomNear")
    \/ RemoveDrawable
    \/ MoveOutOfFrustum
    \/ DispatchWorkItem
    \/ \E t \in DOMAIN running : pc # "undefined" /\ TakeWorkItem(t)
    \/ \E t \in DOMAIN running :
          pc # "undefined" /\ IndexInRange(t) /\ CustomViewProcessDrawable(t)
    \/ \E t \in DOMAIN running :
          pc # "undefined" /\ IndexInRange(t) /\ ViewRendererProcessDrawable(t)
    \/ \E t \in DOMAIN running : pc # "undefined" /\ OutOfRangeAccess(t)
    \/ \E t \in DOMAIN running : pc # "undefined" /\ FinishWorkItem(t)
    \/ CompleteAndReturn
    \/ FrameReturns

SpecReuse == InitFrames /\ [][NextReuse]_vars

\* ------------------------------------------------------------ TestFactory

\* Primary-drawable processing at rest: the state a specification of
\* another component starts from and leaves alone.
ViewInit ==
    /\ impl = "CustomView"
    /\ scene = <<>>
    /\ camera \in Cameras
    /\ numWorkers = 0
    /\ pc = "idle"
    /\ numThreads_ = 0
    /\ numDrawables_ = 0
    /\ baseDrawables = <<>>
    /\ drawableTraits = <<>>
    /\ drawableZRanges = <<>>
    /\ visibleDrawables = <<>>
    /\ batchesUpdated = {}
    /\ workItemIndex = 0
    /\ workItems = <<>>
    /\ queue = <<>>
    /\ running = [t \in 0 .. numWorkers |-> Idle]
    /\ completed = {}

\* Shadow intensity is in tenths: 1.0f is 10.
ShadowIntensityOne == 10

\* The lights HasShadow is asked about.
LightImportances == {"LI_AUTO", "LI_IMPORTANT", "LI_NOT_IMPORTANT"}
LightTypes == {"LIGHT_DIRECTIONAL", "LIGHT_SPOT", "LIGHT_POINT"}
ShadowLights ==
    [castShadows : BOOLEAN,
     lightImportance : LightImportances,
     shadowIntensity : {0, 5, ShadowIntensityOne},
     shadowDistance : {-1, 0, 5},
     distance : {3, 5, 7},
     lightType : LightTypes]

\* Mutation: a light exactly at its shadow distance casts no shadow.
HasShadow_DistanceInclusive(light, drawShadows, glES) ==
    LET shadowsEnabled ==
            /\ drawShadows
            /\ light.castShadows
            /\ light.lightImportance # "LI_NOT_IMPORTANT"
            /\ light.shadowIntensity < ShadowIntensityOne
    IN IF ~shadowsEnabled THEN FALSE
       ELSE IF light.shadowDistance > 0 /\ light.distance >= light.shadowDistance
       THEN FALSE
       ELSE IF glES /\ light.lightType = "LIGHT_POINT" THEN FALSE
       ELSE TRUE

\* TestFactory::HasShadow(light); drawShadows is renderer_->GetDrawShadows()
\* and glES tells whether the build defines GL_ES_VERSION_2_0.
HasShadow(light, drawShadows, glES) ==
    LET shadowsEnabled ==
            /\ drawShadows
            /\ light.castShadows
            /\ light.lightImportance # "LI_NOT_IMPORTANT"
            /\ light.shadowIntensity < ShadowIntensityOne
    IN IF ~shadowsEnabled THEN FALSE
       ELSE IF light.shadowDistance > 0 /\ light.distance > light.shadowDistance
       THEN FALSE
       ELSE IF glES /\ light.lightType = "LIGHT_POINT" THEN FALSE
       ELSE TRUE

\* The batch collector asks whether a light casts shadows.
CallHasShadow ==
    /\ shadowCall = NoCall
    /\ \E light \in ShadowLights, drawShadows \in BOOLEAN, glES \in BOOLEAN :
          shadowCall' = [op |-> "HasShadow", light |-> light,
                         drawShadows |-> drawShadows, glES |-> glES,
                         result |-> HasShadow(light, drawShadows, glES)]
    /\ UNCHANGED <<viewVars, cullCall, pipelineStates, pipelineCalls, renderVars, auxVars>>

CullModes == {"CULL_NONE", "CULL_CCW", "CULL_CW"}
\* const Camera*: null, or a camera with its GetReverseCulling().
NoCamera == [given |-> FALSE, reverseCulling |-> FALSE]
CullCameras ==
    {NoCamera, [given |-> TRUE, reverseCulling |-> FALSE],
     [given |-> TRUE, reverseCulling |-> TRUE]}

\* Mutation: the else is missing, so CULL_CW is swapped and swapped back.
GetEffectiveCullMode_NoElse(mode, cam) ==
    IF cam.given /\ cam.reverseCulling
    THEN LET first == IF mode = "CULL_CW" THEN "CULL_CCW" ELSE mode
         IN IF first = "CULL_CCW" THEN "CULL_CW" ELSE first
    ELSE mode

\* TestFactory::GetEffectiveCullMode(mode, camera)
GetEffectiveCullMode(mode, cam) ==
    IF cam.given /\ cam.reverseCulling
    THEN IF mode = "CULL_CW" THEN "CULL_CCW"
         ELSE IF mode = "CULL_CCW" THEN "CULL_CW"
         ELSE mode
    ELSE mode

\* GetEffectiveCullMode is applied to a cull mode, or once more to the mode
\* it just returned, with the same camera.
ApplyGetEffectiveCullMode ==
    /\ \/ /\ cullCall = NoCall
          /\ \E mode \in CullModes, cam \in CullCameras :
                cullCall' = [op |-> "GetEffectiveCullMode", original |-> mode,
                             camera |-> cam, applied |-> 1,
                             result |-> GetEffectiveCullMode(mode, cam)]
       \/ /\ cullCall.op = "GetEffectiveCullMode"
          /\ cullCall.applied = 1
          /\ cullCall' = [cullCall EXCEPT
                             !.applied = 2,
                             !.result = GetEffectiveCullMode(cullCall.result,
                                                             cullCall.camera)]
    /\ UNCHANGED <<viewVars, shadowCall, pipelineStates, pipelineCalls, renderVars, auxVars>>

InitFactory == ViewInit /\ FactoryInit /\ RenderInit /\ AuxInit

NextFactory ==
    \/ CallHasShadow
    \/ ApplyGetEffectiveCullMode

SpecFactory == InitFactory /\ [][NextFactory]_vars

\* ---------------------------------------------------- pipeline states

\* What CreatePipelineState is called with.  A geometry: its vertex
\* buffers' element lists, primitive type and index size (0: no index
\* buffer).
Geometries ==
    {[vertexBuffers |-> <<<<"POSITION", "NORMAL">>, <<"TEXCOORD">>>>,
      primitiveType |-> "TRIANGLE_LIST", indexSize |-> 2]}
Materials == {[cullMode |-> "CULL_CCW"], [cullMode |-> "CULL_NONE"]}
Passes ==
    {[vertexShader |-> "LitSolid", pixelShader |-> "LitSolid",
      vertexShaderDefines |-> <<"NORMALMAP">>, pixelShaderDefines |-> <<>>,
      depthWrite |-> TRUE, depthTestMode |-> "CMP_LESSEQUAL",
      blendMode |-> "BLEND_REPLACE", alphaToCoverage |-> FALSE]}
\* ctx.light_: null, or a scene light with its Light's attributes.
NoLight == [given |-> FALSE, castShadows |-> FALSE, lightType |-> "LIGHT_DIRECTIONAL"]
PipelineLights ==
    {NoLight,
     [given |-> TRUE, castShadows |-> TRUE, lightType |-> "LIGHT_DIRECTIONAL"],
     [given |-> TRUE, castShadows |-> FALSE, lightType |-> "LIGHT_POINT"],
     [given |-> TRUE, castShadows |-> TRUE, lightType |-> "LIGHT_SPOT"]}
\* ctx.camera_ of a batch: the cameras of a frame, reversing or not.
PipelineCameras == {cam \in CullCameras : cam.given}

\* desc.vertexElements_.append(...) over the vertex buffers.
RECURSIVE AppendElements(_, _)
AppendElements(vertexBuffers, k) ==
    IF k > Len(vertexBuffers) THEN <<>>
    ELSE vertexBuffers[k] \o AppendElements(vertexBuffers, k + 1)

\* IndexBuffer::GetIndexBufferType
GetIndexBufferType(indexSize) ==
    IF indexSize = 0 THEN "IBT_NONE"
    ELSE IF indexSize = 2 THEN "IBT_UINT16" ELSE "IBT_UINT32"

\* The commonDefines string of CreatePipelineState, as its list of words.
CommonDefines(light, constantBuffersEnabled) ==
    (IF light.given
     THEN <<"PERPIXEL">>
          \o (IF light.castShadows THEN <<"SHADOW", "SIMPLE_SHADOW">> ELSE <<>>)
          \o (CASE light.lightType = "LIGHT_DIRECTIONAL" ->
                       <<"DIRLIGHT", "NUMVERTEXLIGHTS=4">>
                [] light.lightType = "LIGHT_POINT" -> <<"POINTLIGHT">>
                [] light.lightType = "LIGHT_SPOT" -> <<"SPOTLIGHT">>)
     ELSE <<>>)
    \o (IF constantBuffersEnabled THEN <<"USE_CBUFFERS">> ELSE <<>>)

\* Graphics::GetShader(type, name, defines): the shader variation of that
\* name and those defines.
GetShader(type, name, defines) == [type |-> type, name |-> name, defines |-> defines]

\* Mutation: stencilEnabled_ is not assigned and takes whatever the memory
\* holds (here: whether a call was made before).
BuildPipelineStateDesc_StaleField(geometry, material, pass, light, cam, constantBuffersEnabled) ==
    LET commonDefines == CommonDefines(light, constantBuffersEnabled)
    IN [vertexElements |-> AppendElements(geometry.vertexBuffers, 1),
        vertexShader |-> GetShader("VS", <<"v2/", pass.vertexShader>>,
                                   commonDefines \o pass.vertexShaderDefines),
        pixelShader |-> GetShader("PS", <<"v2/", pass.pixelShader>>,
                                  commonDefines \o pass.pixelShaderDefines),
        primitiveType |-> geometry.primitiveType,
        indexType |-> GetIndexBufferType(geometry.indexSize),
        depthWrite |-> pass.depthWrite,
        depthMode |-> pass.depthTestMode,
        stencilEnabled |-> Len(pipelineCalls) > 0,
        stencilMode |-> "CMP_ALWAYS",
        colorWrite |-> TRUE,
        blendMode |-> pass.blendMode,
        alphaToCoverage |-> pass.alphaToCoverage,
        fillMode |-> "FILL_SOLID",
        cullMode |-> GetEffectiveCullMode(material.cullMode, cam)]

\* The PipelineStateDesc that CreatePipelineState fills in for key
\* (geometry, material, pass) and context (light, camera).
BuildPipelineStateDesc(geometry, material, pass, light, cam, constantBuffersEnabled) ==
    LET commonDefines == CommonDefines(light, constantBuffersEnabled)
    IN [vertexElements |-> AppendElements(geometry.vertexBuffers, 1),
        vertexShader |-> GetShader("VS", <<"v2/", pass.vertexShader>>,
                                   commonDefines \o pass.vertexShaderDefines),
        pixelShader |-> GetShader("PS", <<"v2/", pass.pixelShader>>,
                                  commonDefines \o pass.pixelShaderDefines),
        primitiveType |-> geometry.primitiveType,
        indexType |-> GetIndexBufferType(geometry.indexSize),
        depthWrite |-> pass.depthWrite,
        depthMode |-> pass.depthTestMode,
        stencilEnabled |-> FALSE,
        stencilMode |-> "CMP_ALWAYS",
        colorWrite |-> TRUE,
        blendMode |-> pass.blendMode,
        alphaToCoverage |-> pass.alphaToCoverage,
        fillMode |-> "FILL_SOLID",
        cullMode |-> GetEffectiveCullMode(material.cullMode, cam)]

\* Renderer::GetOrCreatePipelineState(desc) on the cache `states`: the
\* cache afterwards and the handle returned.
GetOrCreatePipelineState(states, desc) ==
    IF \E h \in 1 .. Len(states) : states[h] = desc
    THEN [states |-> states,
          handle |-> CHOOSE h \in 1 .. Len(states) : states[h] = desc]
    ELSE [states |-> Append(states, desc), handle |-> Len(states) + 1]

\* Mutation: the description is not looked up; every call creates a state.
CreatePipelineState_Uncached ==
    /\ Len(pipelineCalls) < MaxPipelineCalls
    /\ \E geometry \in Geometries, material \in Materials, pass \in Passes,
          light \in PipelineLights, cam \in PipelineCameras,
          constantBuffersEnabled \in BOOLEAN :
          LET desc == BuildPipelineStateDesc(geometry, material, pass, light,
                                             cam, constantBuffersEnabled)
          IN /\ pipelineStates' = Append(pipelineStates, desc)
             /\ pipelineCalls' = Append(pipelineCalls,
                    [geometry |-> geometry, material |-> material,
                     pass |-> pass, light |-> light, camera |-> cam,
                     constantBuffersEnabled |-> constantBuffersEnabled,
                     desc |-> desc, handle |-> Len(pipelineStates) + 1])
    /\ UNCHANGED <<viewVars, shadowCall, cullCall, renderVars, auxVars>>

\* TestFactory::CreatePipelineState(key, ctx)
CreatePipelineState ==
    /\ Len(pipelineCalls) < MaxPipelineCalls
    /\ \E geometry \in Geometries, material \in Materials, pass \in Passes,
          light \in PipelineLights, cam \in PipelineCameras,
          constantBuffersEnabled \in BOOLEAN :
          LET desc == BuildPipelineStateDesc(geometry, material, pass, light,
                                             cam, constantBuffersEnabled)
              cached == GetOrCreatePipelineState(pipelineStates, desc)
          IN /\ pipelineStates' = cached.states
             /\ pipelineCalls' = Append(pipelineCalls,
                    [geometry |-> geometry, material |-> material,
                     pass |-> pass, light |-> light, camera |-> cam,
                     constantBuffersEnabled |-> constantBuffersEnabled,
                     desc |-> desc, handle |-> cached.handle])
    /\ UNCHANGED <<viewVars, shadowCall, cullCall, renderVars, auxVars>>

NextPipeline == CreatePipelineState

SpecPipeline == InitFactory /\ [][NextPipeline]_vars

\* ctx.light_ for a batch lit by the scene light `light`.
PipelineLightOf(light) ==
    [given |-> TRUE, castShadows |-> light.castShadows, lightType |-> light.lightType]

\* One light of a frame: the batch collector asks HasShadow(light) and
\* creates the pipeline state of a batch lit by that light, under the same
\* renderer settings.
CreateLitPipelineState ==
    /\ shadowCall = NoCall
    /\ Len(pipelineCalls) < MaxPipelineCalls
    /\ \E light \in ShadowLights, drawShadows \in BOOLEAN, glES \in BOOLEAN,
          geometry \in Geometries, material \in Materials, pass \in Passes,
          cam \in PipelineCameras, constantBuffersEnabled \in BOOLEAN :
          LET desc == BuildPipelineStateDesc(geometry, material, pass,
                                             PipelineLightOf(light), cam,
                                             constantBuffersEnabled)
              cached == GetOrCreatePipelineState(pipelineStates, desc)
          IN /\ shadowCall' = [op |-> "HasShadow", light |-> light,
                               drawShadows |-> drawShadows, glES |-> glES,
                               result |-> HasShadow(light, drawShadows, glES)]
             /\ pipelineStates' = cached.states
             /\ pipelineCalls' = Append(pipelineCalls,
                    [geometry |-> geometry, material |-> material,
                     pass |-> pass, light |-> PipelineLightOf(light),
                     camera |-> cam,
                     constantBuffersEnabled |-> constantBuffersEnabled,
                     desc |-> desc, handle |-> cached.handle])
    /\ UNCHANGED <<viewVars, cullCall, renderVars, auxVars>>

NextLitPipeline == CreateLitPipelineState

SpecLitPipeline == InitFactory /\ [][NextLitPipeline]_vars

\* ------------------------------------------------- Render: what is drawn

\* Materials are numbered from 1; 0 is nullptr.  Material m has m shader
\* parameters.
\* The batch lists the collector hands out, as the batches' materials: none,
\* or three batches of which the first two share their material.
BatchLists == {<<>>, <<1, 1, 2>>}

\* Sequences of at most n elements of set S.
SeqUpTo(S, n) == UNION {[1 .. k -> S] : k \in 0 .. n}

\* A visible light is its splits; a split is its shadow-batch list.
SceneLights == SeqUpTo(BatchLists, MaxSplits)

\* GetSortedLightBatches: each batch with the index of its visible light.
LightBatchLists(numLights) ==
    {<<>>} \cup
    {[k \in 1 .. Len(list) |-> [lightIndex |-> li, material |-> list[k]]] :
        li \in 1 .. numLights, list \in BatchLists \ {<<>>}}

\* What the SceneBatchCollector reports for a frame.  mainLight is the
\* index of the main light among the visible ones, 0 if there is none.
\* nullState names the batch whose pipelineState_ is null, as <<pass, light,
\* split, batch>>: none in these frames.  The shadow maps of the splits and
\* the frame's number are filled in when the frame is collected.
Frames ==
    UNION {[visibleLights : {lights}, baseBatches : BatchLists,
            lightBatches : LightBatchLists(Len(lights)),
            mainLight : 0 .. Len(lights),
            nullState : {NoBatch}, shadowMaps : {<<>>}, frameNumber : {0}] :
           lights \in SeqUpTo(SceneLights, MaxLights)}

\* The batches of a frame, each as <<pass, light, split, batch>>.
BatchesOf(frame) ==
    UNION {UNION {{<<"shadow", l, s, b>> :
                      b \in 1 .. Len(frame.visibleLights[l][s])} :
                  s \in 1 .. Len(frame.visibleLights[l])} :
           l \in 1 .. Len(frame.visibleLights)}
    \cup {<<"base", frame.mainLight, 0, b>> : b \in 1 .. Len(frame.baseBatches)}
    \cup {<<"light", frame.lightBatches[b].lightIndex, 0, b>> :
             b \in 1 .. Len(frame.lightBatches)}

\* The frames in which the pipeline state of one batch could not be built.
FramesWithNullState ==
    UNION {{[frame EXCEPT !.nullState = batch] : batch \in BatchesOf(frame)} :
           frame \in Frames}

\* ----------------------------------------------- Render: DrawCommandQueue

ShaderParameterGroups ==
    {"SP_FRAME", "SP_CAMERA", "SP_ZONE", "SP_MATERIAL", "SP_OBJECT", "SP_LIGHT"}

\* One call of the queue's interface, as recorded with the draw command it
\* belongs to: ok is the result of a Begin, count the number of
\* AddShaderParameter calls.
QueueCall(call, group, ok, count) ==
    [call |-> call, group |-> group, ok |-> ok, count |-> count]

\* DrawCommandQueue::Reset: no commands, no group holds parameters.
QueueReset == [commands |-> <<>>, groups |-> {}]

\* DrawCommandQueue::BeginShaderParameterGroup(group, differentFromPrevious)
\* on a queue whose groups in `groups` hold parameters of an earlier draw.
BeginShaderParameterGroup(groups, group, differentFromPrevious) ==
    differentFromPrevious \/ group \notin groups

\* Mutation: the result of Begin is not looked at.
FillGroup_Unchecked(groups, group, differentFromPrevious, count) ==
    <<QueueCall("Begin", group,
                BeginShaderParameterGroup(groups, group, differentFromPrevious), 0),
      QueueCall("Add", group, TRUE, count),
      QueueCall("Commit", group, TRUE, 0)>>

\* if (drawQueue.BeginShaderParameterGroup(group, different))
\* { AddShaderParameter x count; CommitShaderParameterGroup(group); }
FillGroup(groups, group, differentFromPrevious, count) ==
    IF BeginShaderParameterGroup(groups, group, differentFromPrevious)
    THEN <<QueueCall("Begin", group, TRUE, 0),
           QueueCall("Add", group, TRUE, count),
           QueueCall("Commit", group, TRUE, 0)>>
    ELSE <<QueueCall("Begin", group, FALSE, 0)>>

\* FillGlobalSharedParameters(drawQueue, frameInfo, camera, zone, scene)
FillGlobalSharedParameters(groups) ==
    FillGroup(groups, "SP_FRAME", FALSE, 4)
        \o FillGroup(groups, "SP_CAMERA", FALSE, 12)
        \o FillGroup(groups, "SP_ZONE", FALSE, 6)

\* The groups that hold parameters after the calls.
GroupsAfter(groups, calls) ==
    groups \cup {calls[k].group : k \in {j \in 1 .. Len(calls) : calls[j].call = "Commit"}}

\* ------------------------------------------------ Render: one draw command

\* A call that belongs to no shader parameter group.
PlainCall(call) == QueueCall(call, "", TRUE, 0)

\* if (rebind) { material group; textures; CommitShaderResources(); }
MaterialCalls(groups, material, rebind) ==
    IF rebind
    THEN FillGroup(groups, "SP_MATERIAL", TRUE, material)
             \o <<PlainCall("AddShaderResource"), PlainCall("CommitShaderResources")>>
    ELSE <<>>

\* currentMaterial after the material block of a loop body.
MaterialAfter(groups, material, current, rebind) ==
    IF rebind /\ BeginShaderParameterGroup(groups, "SP_MATERIAL", TRUE)
    THEN material
    ELSE current

\* The camera handed to FillGlobalSharedParameters: the split's shadow
\* camera in a shadow pass, camera_ (<<0, 0>>) in the base and light passes.
ShadowCamera(light, split) == <<light, split>>
MainCamera == <<0, 0>>

\* The command DrawIndexed queues, with the calls that prepared it;
\* pipelineState tells whether the batch's pipelineState_ is not null.
DrawCommand(pass, light, split, batch, material, cam, rebind, calls) ==
    [pass |-> pass, light |-> light, split |-> split, batch |-> batch,
     material |-> material, camera |-> cam, materialBound |-> rebind,
     calls |-> calls,
     pipelineState |-> collected.nullState # <<pass, light, split, batch>>]

\* The body of the shadow-batch loop.
ShadowBatchCalls(groups, material, rebind) ==
    <<PlainCall("SetPipelineState")>>
        \o FillGlobalSharedParameters(groups)
        \o MaterialCalls(groups, material, rebind)
        \o FillGroup(groups, "SP_OBJECT", TRUE, 1)
        \o <<PlainCall("SetBuffers"), PlainCall("DrawIndexed")>>

\* The body of the base-batch loop; shadowMap tells whether the main light
\* has a shadow map texture.
BaseBatchCalls(groups, material, rebind, shadowMap) ==
    <<PlainCall("SetPipelineState")>>
        \o FillGlobalSharedParameters(groups)
        \o MaterialCalls(groups, material, rebind)
        \o FillGroup(groups, "SP_OBJECT", TRUE, 8)
        \o FillGroup(groups, "SP_LIGHT", TRUE, IF shadowMap THEN 18 ELSE 8)
        \o <<PlainCall("SetBuffers"), PlainCall("DrawIndexed")>>

\* The body of the light-batch loop.
LightBatchCalls(groups, material, rebind) ==
    <<PlainCall("SetPipelineState")>>
        \o FillGlobalSharedParameters(groups)
        \o MaterialCalls(groups, material, rebind)
        \o FillGroup(groups, "SP_OBJECT", TRUE, 8)
        \o FillGroup(groups, "SP_LIGHT", TRUE, 7)
        \o <<PlainCall("SetBuffers"), PlainCall("DrawIndexed")>>

\* The queue after DrawIndexed queued the command.
QueueDraw(commandQueue, command) ==
    [commands |-> Append(commandQueue.commands, command),
     groups |-> GroupsAfter(commandQueue.groups, command.calls)]

\* What reaches the device, in order.
DeviceEvent(event, light, split, commands) ==
    [event |-> event, light |-> light, split |-> split, commands |-> commands]

\* ------------------------------------------------- Render: the three loops

RenderAt(stage, light, split, batch) ==
    [stage |-> stage, light |-> light, split |-> split, batch |-> batch]

\* The loops over visibleLights and over a light's splits: the first split
\* of light `light` or of a later light, else the end of the shadow passes.
RECURSIVE FirstSplitFrom(_, _)
FirstSplitFrom(lights, light) ==
    IF light > Len(lights) THEN RenderAt("output", 0, 0, 0)
    ELSE IF Len(lights[light]) > 0 THEN RenderAt("split", light, 1, 0)
    ELSE FirstSplitFrom(lights, light + 1)

SplitAfter(lights, light, split) ==
    IF split < Len(lights[light])
    THEN RenderAt("split", light, split + 1, 0)
    ELSE FirstSplitFrom(lights, light + 1)

\* The loop over lightBatches, then the final Execute.
LightBatchFrom(frame, batch) ==
    IF batch <= Len(frame.lightBatches)
    THEN RenderAt("light", 0, 0, batch)
    ELSE RenderAt("execute", 0, 0, 0)

\* The loop over baseBatches, then the light batches.
BaseBatchFrom(frame, batch) ==
    IF batch <= Len(frame.baseBatches)
    THEN RenderAt("base", 0, 0, batch)
    ELSE LightBatchFrom(frame, 1)

\* ------------------------------------------------------ Render: the steps

\* The splits of a frame up to split s of light l, in the order of the loops.
SplitsUpTo(frame, l, s) ==
    {ls \in (1 .. l) \X (1 .. MaxSplits) :
        /\ ls[1] <= Len(frame.visibleLights)
        /\ ls[2] <= Len(frame.visibleLights[ls[1]])
        /\ (ls[1] < l \/ ls[2] <= s)}

NumSplits(frame) ==
    Cardinality(SplitsUpTo(frame, Len(frame.visibleLights), MaxSplits))

\* SceneBatchCollector::ProcessVisibleLights asks
\* TestFactory::GetTemporaryShadowMap for one shadow map per split: the maps
\* of frame `frame`, by light and split.  A shadow map is the number of the
\* reset it was allocated after and its slot.
ShadowMapsAfter(allocator, frame) ==
    [l \in 1 .. Len(frame.visibleLights) |->
        [s \in 1 .. Len(frame.visibleLights[l]) |->
            [frame |-> allocator.resets,
             slot |-> allocator.allocated
                        + Cardinality(SplitsUpTo(frame, l, s))]]]

\* Mutation: the allocator is not reset.
CollectFrame_NoReset(frames) ==
    /\ renderPc.stage = "idle"
    /\ \E frame \in frames :
        /\ collected' = [frame EXCEPT
                !.shadowMaps = ShadowMapsAfter(shadowMapAllocator, frame),
                !.frameNumber = collected.frameNumber + 1]
        /\ shadowMapAllocator' = [shadowMapAllocator EXCEPT
                !.allocated = @ + NumSplits(frame)]
        /\ renderPc' = FirstSplitFrom(frame.visibleLights, 1)
    /\ currentMaterial' = 0
    /\ submitted' = <<>>
    /\ UNCHANGED drawQueue
    /\ UNCHANGED <<viewVars, factoryVars, auxVars>>

\* Render up to the shadow passes, for a frame of `frames`: the frame
\* begins, the allocator is reset, the collector's results are fetched and
\* currentMaterial starts as nullptr.
CollectFrame(frames) ==
    /\ renderPc.stage = "idle"
    /\ \E frame \in frames :
        LET reset == [resets |-> shadowMapAllocator.resets + 1,
                      allocated |-> 0, begun |-> <<>>]
        IN /\ collected' = [frame EXCEPT
                   !.shadowMaps = ShadowMapsAfter(reset, frame),
                   !.frameNumber = collected.frameNumber + 1]
           /\ shadowMapAllocator' = [reset EXCEPT !.allocated = NumSplits(frame)]
           /\ renderPc' = FirstSplitFrom(frame.visibleLights, 1)
    /\ currentMaterial' = 0
    /\ submitted' = <<>>
    /\ UNCHANGED drawQueue
    /\ UNCHANGED <<viewVars, factoryVars, auxVars>>

\* A frame in which every pipeline state was built.
CollectBatches == CollectFrame(Frames)

\* A frame in which the pipeline state of one batch is null.
CollectBatchesWithNullState == CollectFrame(FramesWithNullState)

\* Render returns and the next frame's Render may be entered: the locals
\* are gone and the frame's scene lights and batches are not used again;
\* the static queue and allocator stay as they are.
ReturnFromRender ==
    /\ renderPc.stage = "done"
    /\ collected.frameNumber < MaxFrames
    /\ renderPc' = RenderIdle
    /\ collected' = [NoFrame EXCEPT !.frameNumber = collected.frameNumber]
    /\ currentMaterial' = 0
    /\ submitted' = <<>>
    /\ UNCHANGED <<drawQueue, shadowMapAllocator>>
    /\ UNCHANGED <<viewVars, factoryVars, auxVars>>

\* Mutation: the queue is not reset at the start of a split.
BeginShadowSplit_NoReset ==
    /\ renderPc.stage = "split"
    /\ submitted' = Append(submitted,
            DeviceEvent("BeginShadowMap", renderPc.light, renderPc.split, <<>>))
    /\ shadowMapAllocator' = [shadowMapAllocator EXCEPT !.begun =
            Append(@, collected.shadowMaps[renderPc.light][renderPc.split])]
    /\ renderPc' = RenderAt("shadow", renderPc.light, renderPc.split, 1)
    /\ UNCHANGED <<collected, currentMaterial, drawQueue>>
    /\ UNCHANGED <<viewVars, factoryVars, auxVars>>

\* drawQueue.Reset(graphics_); shadowMapAllocator->BeginShadowMap(...)
BeginShadowSplit ==
    /\ renderPc.stage = "split"
    /\ drawQueue' = QueueReset
    /\ submitted' = Append(submitted,
            DeviceEvent("BeginShadowMap", renderPc.light, renderPc.split, <<>>))
    /\ shadowMapAllocator' = [shadowMapAllocator EXCEPT !.begun =
            Append(@, collected.shadowMaps[renderPc.light][renderPc.split])]
    /\ renderPc' = RenderAt("shadow", renderPc.light, renderPc.split, 1)
    /\ UNCHANGED <<collected, currentMaterial>>
    /\ UNCHANGED <<viewVars, factoryVars, auxVars>>

\* The shadow batches of the split Render is at.
ShadowBatches == collected.visibleLights[renderPc.light][renderPc.split]

\* One pass of the loop over the split's shadow batches.
ShadowBatch ==
    /\ renderPc.stage = "shadow"
    /\ renderPc.batch <= Len(ShadowBatches)
    /\ LET material == ShadowBatches[renderPc.batch]
           rebind == material # currentMaterial
           calls == ShadowBatchCalls(drawQueue.groups, material, rebind)
       IN /\ drawQueue' = QueueDraw(drawQueue,
                DrawCommand("shadow", renderPc.light, renderPc.split,
                            renderPc.batch, material,
                            ShadowCamera(renderPc.light, renderPc.split),
                            rebind, calls))
          /\ currentMaterial' =
                MaterialAfter(drawQueue.groups, material, currentMaterial, rebind)
    /\ renderPc' = [renderPc EXCEPT !.batch = @ + 1]
    /\ UNCHANGED <<collected, submitted, shadowMapAllocator>>
    /\ UNCHANGED <<viewVars, factoryVars, auxVars>>

\* Mutation: the split's commands are left in the queue, not executed.
ExecuteShadowSplit_NoExecute ==
    /\ renderPc.stage = "shadow"
    /\ renderPc.batch > Len(ShadowBatches)
    /\ renderPc' = SplitAfter(collected.visibleLights, renderPc.light, renderPc.split)
    /\ UNCHANGED <<collected, currentMaterial, drawQueue, submitted, shadowMapAllocator>>
    /\ UNCHANGED <<viewVars, factoryVars, auxVars>>

\* drawQueue.Execute(graphics_) at the end of a split.
ExecuteShadowSplit ==
    /\ renderPc.stage = "shadow"
    /\ renderPc.batch > Len(ShadowBatches)
    /\ submitted' = Append(submitted,
            DeviceEvent("Execute", renderPc.light, renderPc.split, drawQueue.commands))
    /\ renderPc' = SplitAfter(collected.visibleLights, renderPc.light, renderPc.split)
    /\ UNCHANGED <<collected, currentMaterial, drawQueue, shadowMapAllocator>>
    /\ UNCHANGED <<viewVars, factoryVars, auxVars>>

\* SetOutputRenderTarget(); Clear(...); drawQueue.Reset; currentMaterial = nullptr
SetOutputRenderTarget ==
    /\ renderPc.stage = "output"
    /\ submitted' = submitted
            \o <<DeviceEvent("SetOutputRenderTarget", 0, 0, <<>>),
                 DeviceEvent("Clear", 0, 0, <<>>)>>
    /\ drawQueue' = QueueReset
    /\ currentMaterial' = 0
    /\ renderPc' = RenderAt("mainLight", 0, 0, 0)
    /\ UNCHANGED <<collected, shadowMapAllocator>>
    /\ UNCHANGED <<viewVars, factoryVars, auxVars>>

\* mainLight = GetMainLight(); mainLightParams = mainLight->GetShaderParams().
\* The call through a null mainLight is undefined: the program stops here,
\* or the reference is formed without a read and Render goes on.
GetMainLight ==
    /\ renderPc.stage = "mainLight"
    /\ \/ renderPc' = BaseBatchFrom(collected, 1)
       \/ /\ collected.mainLight = 0
          /\ renderPc' = RenderAt("undefined", 0, 0, 0)
    /\ UNCHANGED <<collected, currentMaterial, drawQueue, submitted, shadowMapAllocator>>
    /\ UNCHANGED <<viewVars, factoryVars, auxVars>>

\* mainLight->GetShadowMap().texture_: a light with splits has a shadow map.
\* Read through a null mainLight the value is whatever lies there.
MainLightShadowMaps ==
    IF collected.mainLight = 0 THEN BOOLEAN
    ELSE {Len(collected.visibleLights[collected.mainLight]) > 0}

\* One pass of the loop over the sorted base batches.  With a null
\* mainLight the reads of the light are undefined: the program stops, or
\* the batch is drawn with what the reads returned.
BaseBatch ==
    /\ renderPc.stage = "base"
    /\ \/ \E shadowMap \in MainLightShadowMaps :
            LET material == collected.baseBatches[renderPc.batch]
                rebind == material # currentMaterial
                calls == BaseBatchCalls(drawQueue.groups, material, rebind, shadowMap)
            IN /\ drawQueue' = QueueDraw(drawQueue,
                     DrawCommand("base", collected.mainLight, 0, renderPc.batch,
                                 material, MainCamera, rebind, calls))
               /\ currentMaterial' =
                     MaterialAfter(drawQueue.groups, material, currentMaterial, rebind)
               /\ renderPc' = BaseBatchFrom(collected, renderPc.batch + 1)
       \/ /\ collected.mainLight = 0
          /\ renderPc' = RenderAt("undefined", 0, 0, 0)
          /\ UNCHANGED <<drawQueue, currentMaterial>>
    /\ UNCHANGED <<collected, submitted, shadowMapAllocator>>
    /\ UNCHANGED <<viewVars, factoryVars, auxVars>>

\* One pass of the loop over the sorted light batches.
LightBatch ==
    /\ renderPc.stage = "light"
    /\ LET batch == collected.lightBatches[renderPc.batch]
           rebind == batch.material # currentMaterial \/ TRUE
           calls == LightBatchCalls(drawQueue.groups, batch.material, rebind)
       IN /\ drawQueue' = QueueDraw(drawQueue,
                DrawCommand("light", batch.lightIndex, 0, renderPc.batch,
                            batch.material, MainCamera, rebind, calls))
          /\ currentMaterial' =
                MaterialAfter(drawQueue.groups, batch.material, currentMaterial, rebind)
    /\ renderPc' = LightBatchFrom(collected, renderPc.batch + 1)
    /\ UNCHANGED <<collected, submitted, shadowMapAllocator>>
    /\ UNCHANGED <<viewVars, factoryVars, auxVars>>

\* drawQueue.Execute(graphics_); sceneViewport->EndFrame();
ExecuteAndEndFrame ==
    /\ renderPc.stage = "execute"
    /\ submitted' = submitted
            \o <<DeviceEvent("Execute", 0, 0, drawQueue.commands),
                 DeviceEvent("EndFrame", 0, 0, <<>>)>>
    /\ renderPc' = RenderAt("done", 0, 0, 0)
    /\ UNCHANGED <<collected, currentMaterial, drawQueue, shadowMapAllocator>>
    /\ UNCHANGED <<viewVars, factoryVars, auxVars>>

NextRender ==
    \/ CollectBatches
    \/ BeginShadowSplit
    \/ ShadowBatch
    \/ ExecuteShadowSplit
    \/ SetOutputRenderTarget
    \/ GetMainLight
    \/ BaseBatch
    \/ LightBatch
    \/ ExecuteAndEndFrame

SpecRender == InitFactory /\ [][NextRender]_vars

\* One frame, with or without a null pipeline state.
NextRenderNullState ==
    \/ NextRender
    \/ CollectBatchesWithNullState

SpecRenderNullState == InitFactory /\ [][NextRenderNullState]_vars

\* Frames one after the other.
NextRenderFrames ==
    \/ NextRender
    \/ ReturnFromRender

SpecRenderFrames == InitFactory /\ [][NextRenderFrames]_vars

\* Frames in which the last shadow batch of a split and the first of the
\* next split can use the same material: shadow-batch lists <<1>> and
\* <<1, 2>>, a main light, one or two base batches, no light batches.
FramesWithSharedMaterial ==
    UNION {[visibleLights : {lights}, baseBatches : {<<1>>, <<1, 2>>},
            lightBatches : {<<>>},
            mainLight : 1 .. Len(lights),
            nullState : {NoBatch}, shadowMaps : {<<>>}, frameNumber : {0}] :
           lights \in SeqUpTo(SeqUpTo({<<1>>, <<1, 2>>}, MaxSplits), MaxLights) \ {<<>>}}

CollectBatchesWithSharedMaterial == CollectFrame(FramesWithSharedMaterial)

\* Frames whose splits may share a material.
NextRenderSharedMaterial ==
    \/ CollectBatchesWithSharedMaterial
    \/ ReturnFromRender
    \/ BeginShadowSplit
    \/ ShadowBatch
    \/ ExecuteShadowSplit
    \/ SetOutputRenderTarget
    \/ GetMainLight
    \/ BaseBatch
    \/ ExecuteAndEndFrame

SpecRenderSharedMaterial == InitFactory /\ [][NextRenderSharedMaterial]_vars

\* ----------------------------------------------------- CustomView::Define

\* The viewports Define is called with: whether the viewport has a scene and
\* a camera, whether the scene has an octree, and how many drawables the
\* octree holds.  Viewports and render targets are numbered from 1.
Viewports ==
    {v \in [id : 1 .. 2, scene : BOOLEAN, camera : BOOLEAN, octree : BOOLEAN,
            drawables : 0 .. 2] :
        /\ (~v.scene => ~v.octree)
        /\ (~v.octree => v.drawables = 0)}
RenderTargets == 1 .. 2

\* What a Define call leaves behind: the revision of CustomView.cpp it
\* belongs to ("unchecked" is the earlier one), its arguments, the members
\* before it, its result ("true", "false", or "undefined" when it went through a null
\* pointer).
DefineCall(revision, renderTarget, viewport, before, result) ==
    [op |-> "Define", revision |-> revision, renderTarget |-> renderTarget,
     viewport |-> viewport, before |-> before, result |-> result]

\* The program is built from one revision, and runs as long as no Define
\* call went through a null pointer.
Defines(revision) ==
    IF defineCall.op = "Define"
    THEN defineCall.result # "undefined" /\ defineCall.revision = revision
    ELSE TRUE

\* CustomView::Define of the later revision.
DefineChecked ==
    /\ Defines("checked")
    /\ \E renderTarget \in RenderTargets, viewport \in Viewports :
        LET camera_ == viewport.scene /\ viewport.camera
            octree_ == viewport.scene /\ viewport.octree
            found == [definedView EXCEPT !.scene_ = viewport.scene,
                                         !.camera_ = camera_,
                                         !.octree_ = octree_]
        IN IF ~camera_ \/ ~octree_
           THEN /\ definedView' = found
                /\ defineCall' = DefineCall("checked", renderTarget, viewport,
                                            definedView, "false")
           ELSE /\ definedView' = [found EXCEPT !.numDrawables_ = viewport.drawables,
                                                !.renderTarget_ = renderTarget,
                                                !.viewport_ = viewport.id]
                /\ defineCall' = DefineCall("checked", renderTarget, viewport,
                                            definedView, "true")
    /\ UNCHANGED <<viewVars, factoryVars, renderVars>>
    /\ UNCHANGED <<rml, storage, batchRenderer, ui, toolVars>>

\* CustomView::Define of the earlier revision: nothing is tested.
\* scene_->GetComponent<Octree>() on a null scene and
\* octree_->GetAllDrawables() on a null octree are undefined: the program
\* stops, or the call returns and the count is whatever was read.
DefineUnchecked ==
    /\ Defines("unchecked")
    /\ \E renderTarget \in RenderTargets, viewport \in Viewports :
        LET found == [definedView EXCEPT !.scene_ = viewport.scene,
                                         !.camera_ = viewport.camera,
                                         !.octree_ = viewport.octree]
        IN \/ /\ ~viewport.scene \/ ~viewport.octree
              /\ definedView' = found
              /\ defineCall' = DefineCall("unchecked", renderTarget, viewport,
                                          definedView, "undefined")
           \/ \E count \in IF viewport.octree THEN {viewport.drawables} ELSE 0 .. 2 :
              /\ definedView' = [found EXCEPT !.numDrawables_ = count,
                                              !.renderTarget_ = renderTarget,
                                              !.viewport_ = viewport.id]
              /\ defineCall' = DefineCall("unchecked", renderTarget, viewport,
                                          definedView, "true")
    /\ UNCHANGED <<viewVars, factoryVars, renderVars>>
    /\ UNCHANGED <<rml, storage, batchRenderer, ui, toolVars>>

\* Frame after frame the viewport's view is defined, by either revision.
NextDefine ==
    \/ DefineChecked
    \/ DefineUnchecked

SpecDefine == InitFactory /\ [][NextDefine]_vars

\* ------------------------------------------------- RmlRenderer: textures

\* What the other component specifications leave alone.
restVars == <<viewVars, factoryVars, renderVars, defineVars>>
componentVars == <<restVars, rml, storage, batchRenderer>>

\* The number of handles the UI library holds.
HandlesHeld == rml.held[1] + Cardinality({t \in TextureIds : t # 1 /\ rml.held[t] > 0})

\* Texture::AddRef / ReleaseRef on texture t; at zero references the
\* texture is destroyed.
AddRef(textures, t) ==
    [textures EXCEPT !.refs[t] = @ + 1, !.alive = @ \cup {t}]
ReleaseRef(textures, t) ==
    [textures EXCEPT !.refs[t] = @ - 1,
                     !.alive = IF textures.refs[t] = 1 THEN @ \ {t} ELSE @]

\* The UI library keeps a non-null handle it was given until it releases it.
Hold(textures, handle, call) ==
    [textures EXCEPT !.held = IF handle = 0 THEN @
                              ELSE [@ EXCEPT ![handle] = @ + 1],
                     !.call = call]

\* RmlRenderer::LoadTexture(textureOut, sizeOut, source): the cache finds
\* texture 1 (4 x 2 texels) for source "found" and nothing for "missing".
LoadTexture ==
    /\ HandlesHeld < MaxHandles
    /\ \E source \in {"found", "missing"}, sizeOut \in {<<0, 0>>, <<7, 7>>} :
        LET texture == IF source = "found" THEN 1 ELSE 0
            after == IF texture # 0 THEN AddRef(rml, texture) ELSE rml
        IN rml' = Hold(after, texture,
                [op |-> "LoadTexture", source |-> source, handle |-> texture,
                 sizeBefore |-> sizeOut,
                 sizeOut |-> IF texture # 0 THEN <<4, 2>> ELSE sizeOut,
                 refsBefore |-> rml.refs])
    /\ UNCHANGED <<restVars, storage, batchRenderer, ui, toolVars>>

\* Mutation: the created texture gets no reference.
GenerateTexture_NoAddRef ==
    /\ HandlesHeld < MaxHandles
    /\ LET texture == CHOOSE t \in TextureIds : t \notin rml.alive
                        /\ \A u \in TextureIds : u < t => u \in rml.alive
       IN rml' = Hold([rml EXCEPT !.alive = @ \cup {texture}], texture,
                [op |-> "GenerateTexture", source |-> "bytes", handle |-> texture,
                 sizeBefore |-> <<0, 0>>, sizeOut |-> <<0, 0>>,
                 refsBefore |-> rml.refs])
    /\ UNCHANGED <<restVars, storage, batchRenderer, ui, toolVars>>

\* RmlRenderer::GenerateTexture(handleOut, source, size): CreateObject
\* makes a texture, Detach leaves it alive with no reference, AddRef gives
\* it one.
GenerateTexture ==
    /\ HandlesHeld < MaxHandles
    /\ LET texture == CHOOSE t \in TextureIds : t \notin rml.alive
                        /\ \A u \in TextureIds : u < t => u \in rml.alive
       IN rml' = Hold(AddRef(rml, texture), texture,
                [op |-> "GenerateTexture", source |-> "bytes", handle |-> texture,
                 sizeBefore |-> <<0, 0>>, sizeOut |-> <<0, 0>>,
                 refsBefore |-> rml.refs])
    /\ UNCHANGED <<restVars, storage, batchRenderer, ui, toolVars>>

\* RmlRenderer::ReleaseTexture(textureHandle), called by the UI library
\* with a handle it holds or with the null handle.
ReleaseTexture ==
    /\ \E handle \in {0} \cup {t \in TextureIds : rml.held[t] > 0} :
        LET after == IF handle # 0 THEN ReleaseRef(rml, handle) ELSE rml
            call == [op |-> "ReleaseTexture", source |-> "", handle |-> handle,
                     sizeBefore |-> <<0, 0>>, sizeOut |-> <<0, 0>>,
                     refsBefore |-> rml.refs]
        IN rml' = IF handle = 0 THEN [after EXCEPT !.call = call]
                  ELSE [after EXCEPT !.held[handle] = @ - 1, !.call = call]
    /\ UNCHANGED <<restVars, storage, batchRenderer, ui, toolVars>>

NextTextures ==
    \/ LoadTexture
    \/ GenerateTexture
    \/ ReleaseTexture

SpecTextures == InitFactory /\ [][NextTextures]_vars

\* -------------------------------------------------- ShaderParameterStorage

\* The overloads of AddParameter, by the type of the value.
ParameterTypes == {"Vector4", "Matrix3", "Matrix3x4", "Matrix4"}

\* static const unsigned size of each overload.
ParameterSize(type) ==
    CASE type = "Vector4" -> 1
      [] type = "Matrix3" -> 3
      [] type = "Matrix3x4" -> 3
      [] type = "Matrix4" -> 4

\* The Vector4 stored for row i of value `value`: the value itself for a
\* Vector4, Vector4(value.Row(i), 0.0f) for a Matrix3, value.Row(i) else.
\* Values are told apart by a number; Vector4::ZERO is value 0.
StoredRow(type, value, i) ==
    [value |-> value, row |-> i, w |-> IF type = "Matrix3" THEN "zero" ELSE "own"]
ZeroVector == [value |-> 0, row |-> 0, w |-> "own"]

\* static_cast<unsigned char>
ToUnsignedChar(n) == n % 256

\* ShaderParameterStorage::GetNextParameterOffset
GetNextParameterOffset(st) == Len(st.names_)

\* Mutation: the offset pushed is the number of parameters.
AllocateParameter_OffsetByCount(st, name, index, size) ==
    [names_ |-> Append(st.names_, name),
     indices_ |-> Append(st.indices_, ToUnsignedChar(index)),
     dataOffsets_ |-> Append(st.dataOffsets_, Len(st.names_)),
     dataSizes_ |-> Append(st.dataSizes_, ToUnsignedChar(size)),
     data_ |-> st.data_ \o [i \in 1 .. size |-> ZeroVector]]

\* ShaderParameterStorage::AllocateParameter
AllocateParameter(st, name, index, size) ==
    [names_ |-> Append(st.names_, name),
     indices_ |-> Append(st.indices_, ToUnsignedChar(index)),
     dataOffsets_ |-> Append(st.dataOffsets_, Len(st.data_)),
     dataSizes_ |-> Append(st.dataSizes_, ToUnsignedChar(size)),
     data_ |-> st.data_ \o [i \in 1 .. size |-> ZeroVector]]

\* Mutation: the rows are written from the start of the buffer.
AddParameter_WritesFromStart(st, name, index, type, value) ==
    LET size == ParameterSize(type)
        allocated == AllocateParameter(st, name, index, size)
    IN [allocated EXCEPT !.data_ =
            [j \in 1 .. Len(allocated.data_) |->
                IF j <= size THEN StoredRow(type, value, j - 1)
                ELSE allocated.data_[j]]]

\* ShaderParameterStorage::AddParameter(name, index, value) for a value of
\* type `type`: data_[base - size + i] = row i, with data_ indexed from 0.
AddParameter(st, name, index, type, value) ==
    LET size == ParameterSize(type)
        allocated == AllocateParameter(st, name, index, size)
        base == Len(allocated.data_)
    IN [allocated EXCEPT !.data_ =
            [j \in 1 .. base |->
                IF j > base - size THEN StoredRow(type, value, j - 1 - (base - size))
                ELSE allocated.data_[j]]]

\* A caller adds a parameter: the k-th call passes value k.
CallAddParameter ==
    /\ Len(storage.added) < MaxParameters
    /\ \E name \in 1 .. 2, index \in {0, 257}, type \in ParameterTypes :
        LET value == Len(storage.added) + 1
        IN storage' =
            [vectors |-> AddParameter(storage.vectors, name, index, type, value),
             added |-> Append(storage.added,
                [name |-> name, index |-> index, type |-> type, value |-> value])]
    /\ UNCHANGED <<restVars, rml, batchRenderer, ui, toolVars>>

NextStorage == CallAddParameter

SpecStorage == InitFactory /\ [][NextStorage]_vars

\* ----------------------------------------------------------- BatchRenderer

\* The value types the callers instantiate the templates with.
BatchParameterTypes == {"Vector4", "Matrix4"}

\* BatchRenderer::AddGroupParameter
AddGroupParameter ==
    /\ Len(batchRenderer.calls) < MaxBatchCalls
    /\ \E type \in BatchParameterTypes :
        batchRenderer' = [batchRenderer EXCEPT
            !.groupParameters_ =
                AddParameter(@, 1, 0, type, Len(batchRenderer.calls) + 1),
            !.currentGroup_.numParameters_ = @ + 1,
            !.calls = Append(@, "AddGroupParameter")]
    /\ UNCHANGED <<restVars, rml, storage, ui, toolVars>>

\* BatchRenderer::AddInstanceParameter
AddInstanceParameter ==
    /\ Len(batchRenderer.calls) < MaxBatchCalls
    /\ \E type \in BatchParameterTypes :
        batchRenderer' = [batchRenderer EXCEPT
            !.instanceParameters_ =
                AddParameter(@, 1, 1, type, Len(batchRenderer.calls) + 1),
            !.currentInstance_.numParameters_ = @ + 1,
            !.calls = Append(@, "AddInstanceParameter")]
    /\ UNCHANGED <<restVars, rml, storage, ui, toolVars>>

\* BatchRenderer::CommitInstance
CommitInstance ==
    /\ Len(batchRenderer.calls) < MaxBatchCalls
    /\ batchRenderer' = [batchRenderer EXCEPT
            !.instances_ = Append(@, batchRenderer.currentInstance_),
            !.currentInstance_ =
                [ZeroInstanceDesc EXCEPT !.parameterOffset_ =
                    GetNextParameterOffset(batchRenderer.instanceParameters_)],
            !.calls = Append(@, "CommitInstance")]
    /\ UNCHANGED <<restVars, rml, storage, ui, toolVars>>

\* BatchRenderer::CommitGroup
CommitGroup ==
    /\ Len(batchRenderer.calls) < MaxBatchCalls
    /\ batchRenderer' = [batchRenderer EXCEPT
            !.groups_ = Append(@, batchRenderer.currentGroup_),
            !.currentGroup_ =
                [ZeroGroupDesc EXCEPT
                    !.parameterOffset_ =
                        GetNextParameterOffset(batchRenderer.groupParameters_),
                    !.instanceOffset_ = Len(batchRenderer.instances_)],
            !.calls = Append(@, "CommitGroup")]
    /\ UNCHANGED <<restVars, rml, storage, ui, toolVars>>

NextBatchRenderer ==
    \/ AddGroupParameter
    \/ AddInstanceParameter
    \/ CommitInstance
    \/ CommitGroup

SpecBatchRenderer == InitFactory /\ [][NextBatchRenderer]_vars

\* --------------------------------------------------------------------- UI2

\* The number of Rml context renders since the last begin-frame event.
RenderedThisFrame == ui.rendered[Len(ui.rendered)]

\* rmlContext_->Render(), when there is a context.
RmlContextRender ==
    IF ui.rmlContext_
    THEN [ui.rendered EXCEPT ![Len(ui.rendered)] = @ + 1]
    ELSE ui.rendered

\* UI2::Initialize on the members u: nothing without an initialised
\* Graphics; else the Rml library and context are created, initialized_ is
\* set and the input and frame events are subscribed to.
Initialize(u) ==
    IF ~u.graphicsInitialized THEN u
    ELSE [u EXCEPT !.rmlContext_ = TRUE, !.contexts = @ + 1,
                   !.initialized_ = TRUE, !.subscribed = TRUE]

\* Graphics::SetMode succeeds: Graphics::IsInitialized() becomes true.
SetMode ==
    /\ ~ui.graphicsInitialized
    /\ ui' = [ui EXCEPT !.graphicsInitialized = TRUE]
    /\ UNCHANGED <<componentVars, toolVars>>

\* UI2::UI2: subscribes to the screen-mode event and tries to initialise.
UI2Construct ==
    /\ ~ui.constructed
    /\ ui' = Initialize([ui EXCEPT !.constructed = TRUE])
    /\ UNCHANGED <<componentVars, toolVars>>

\* Mutation: the handler initialises whether or not it did before.
HandleScreenMode_Unguarded ==
    /\ ui.constructed
    /\ ui.screenModes < MaxScreenModes
    /\ ui' = Initialize([ui EXCEPT !.screenModes = @ + 1])
    /\ UNCHANGED <<componentVars, toolVars>>

\* UI2::HandleScreenMode
HandleScreenMode ==
    /\ ui.constructed
    /\ ui.screenModes < MaxScreenModes
    /\ ui' = IF ~ui.initialized_
             THEN Initialize([ui EXCEPT !.screenModes = @ + 1])
             ELSE [ui EXCEPT !.screenModes = @ + 1]
    /\ UNCHANGED <<componentVars, toolVars>>

\* UI2::HandleBeginFrame
HandleBeginFrame ==
    /\ ui.subscribed
    /\ Len(ui.rendered) <= MaxUIFrames
    /\ ui' = [ui EXCEPT !.uiRendered_ = FALSE, !.rendered = Append(@, 0)]
    /\ UNCHANGED <<restVars, rml, storage, batchRenderer, toolVars>>

\* UI2::Render
UI2Render ==
    /\ ui.constructed
    /\ RenderedThisFrame < MaxUIRenders
    /\ ui' = [ui EXCEPT !.rendered = RmlContextRender, !.uiRendered_ = TRUE]
    /\ UNCHANGED <<restVars, rml, storage, batchRenderer, toolVars>>

\* UI2::HandleEndAllViewsRender
HandleEndAllViewsRender ==
    /\ ui.subscribed
    /\ RenderedThisFrame < MaxUIRenders
    /\ ui' = [ui EXCEPT !.rendered = RmlContextRender]
    /\ UNCHANGED <<restVars, rml, storage, batchRenderer, toolVars>>

NextUI ==
    \/ SetMode
    \/ UI2Construct
    \/ HandleScreenMode
    \/ HandleBeginFrame
    \/ UI2Render
    \/ HandleEndAllViewsRender

SpecUI == InitFactory /\ [][NextUI]_vars

\* ----------------------------------------------------------- UI2: touches

\* The touch ids Input hands out.
TouchIds == 0 .. MaxTouches - 1

\* MakeTouchIDMask(id): 1u << id
MakeTouchIDMask(id) == 2 ^ id

\* MouseButtonUrho3DToRml, with MOUSEB_LEFT = 1, MOUSEB_MIDDLE = 2,
\* MOUSEB_RIGHT = 4, MOUSEB_X1 = 8, MOUSEB_X2 = 16.
MouseButtonUrho3DToRml(button) ==
    CASE button = 1 -> 0
      [] button = 2 -> 2
      [] button = 4 -> 1
      [] button = 8 -> 3
      [] button = 16 -> 4
      [] OTHER -> -1

\* A call UI2 makes on the Rml context for touch `id`.
RmlCall(op, id) ==
    [op |-> op, touch |-> id, button |-> MouseButtonUrho3DToRml(MakeTouchIDMask(id))]

\* Input::SetMouseGrabbed: the application grabs or releases the mouse.
SetMouseGrabbed ==
    /\ \E grab \in BOOLEAN :
        /\ grab # input.mouseGrabbed
        /\ input' = [input EXCEPT !.mouseGrabbed = grab]
    /\ UNCHANGED <<componentVars, ui, parse, generate, scissor>>

\* UI2::HandleTouchBegin, for a finger that was not down.
HandleTouchBegin ==
    /\ ui.subscribed
    /\ input.begun < MaxTouches
    /\ \E id \in TouchIds \ input.touches :
        input' = [input EXCEPT
            !.touches = @ \cup {id},
            !.begun = @ + 1,
            !.forwarded =
                IF input.mouseGrabbed THEN @
                ELSE @ \o <<RmlCall("ProcessMouseButtonDown", id),
                            RmlCall("ProcessMouseMove", id)>>]
    /\ UNCHANGED <<componentVars, ui, parse, generate, scissor>>

\* UI2::HandleTouchEnd, for a finger that is down.
HandleTouchEnd ==
    /\ ui.subscribed
    /\ \E id \in input.touches :
        input' = [input EXCEPT
            !.touches = @ \ {id},
            !.forwarded = @ \o <<RmlCall("ProcessMouseMove", id),
                                 RmlCall("ProcessMouseButtonUp", id)>>]
    /\ UNCHANGED <<componentVars, ui, parse, generate, scissor>>

NextTouch ==
    \/ SetMode
    \/ UI2Construct
    \/ HandleScreenMode
    \/ SetMouseGrabbed
    \/ HandleTouchBegin
    \/ HandleTouchEnd

SpecTouch == InitFactory /\ [][NextTouch]_vars

\* ------------------------------------------------- RmlRenderer: scissor

\* The arguments the UI library passes to SetScissorRegion.
ScissorArguments == [x : 0 .. 1, y : 0 .. 1, width : 1 .. 2, height : 1 .. 2]

\* The build holds one of the two versions of RmlRenderer.
ScissorVersion(version) ==
    IF scissor.call.op = "none" THEN TRUE ELSE scissor.call.version = version

\* RmlRenderer::EnableScissorRegion (the same in both versions)
EnableScissorRegion ==
    /\ \E enable \in BOOLEAN : scissor' = [scissor EXCEPT !.scrissorEnabled_ = enable]
    /\ UNCHANGED <<componentVars, ui, input, parse, generate>>

\* RmlRenderer::SetScissorRegion of the version using namespace Rml
SetScissorRegion ==
    /\ ScissorVersion("Rml")
    /\ \E args \in ScissorArguments :
        scissor' = [scissor EXCEPT
            !.scissor_ = [left_ |-> args.x, top_ |-> args.y,
                          bottom_ |-> args.y + args.height,
                          right_ |-> args.x + args.width],
            !.call = [op |-> "SetScissorRegion", version |-> "Rml", args |-> args]]
    /\ UNCHANGED <<componentVars, ui, input, parse, generate>>

\* RmlRenderer::SetScissorRegion of the version using namespace Rml::Core
SetScissorRegionCore ==
    /\ ScissorVersion("Rml::Core")
    /\ \E args \in ScissorArguments :
        scissor' = [scissor EXCEPT
            !.scissor_ = [left_ |-> args.x, top_ |-> args.y,
                          bottom_ |-> args.height,
                          right_ |-> args.width],
            !.call = [op |-> "SetScissorRegion", version |-> "Rml::Core", args |-> args]]
    /\ UNCHANGED <<componentVars, ui, input, parse, generate>>

\* The end of RmlRenderer::RenderCompiledGeometry (the same in both
\* versions): the scissor test set on the device for the draw.  With
\* OpenGL and a render surface the rectangle is flipped vertically.
RenderCompiledGeometry ==
    /\ \E uiScale_ \in 1 .. 2, flip \in BOOLEAN, viewSizeY \in {8} :
        LET scaled == [left_ |-> scissor.scissor_.left_ * uiScale_,
                       top_ |-> scissor.scissor_.top_ * uiScale_,
                       right_ |-> scissor.scissor_.right_ * uiScale_,
                       bottom_ |-> scissor.scissor_.bottom_ * uiScale_]
            flipped == [scaled EXCEPT !.top_ = viewSizeY - scaled.bottom_,
                                      !.bottom_ = viewSizeY - scaled.top_]
        IN scissor' = [scissor EXCEPT !.draw =
            IF scissor.scrissorEnabled_
            THEN [op |-> "Draw", scissorTest |-> TRUE, uiScale_ |-> uiScale_,
                  flip |-> flip, rect |-> IF flip THEN flipped ELSE scaled]
            ELSE [op |-> "Draw", scissorTest |-> FALSE]]
    /\ UNCHANGED <<componentVars, ui, input, parse, generate>>

NextScissor ==
    \/ EnableScissorRegion
    \/ SetScissorRegion
    \/ SetScissorRegionCore
    \/ RenderCompiledGeometry

SpecScissor == InitFactory /\ [][NextScissor]_vars

\* ------------------------------------------- GeneratorContext::ParseFiles

\* What ScanDirectory finds: each file as what becomes of it, "ok" (included,
\* parses), "error" (included, parser.error()) or "excluded"
\* (!checker.IsIncluded(filePath)).
FileKinds == {"ok", "error", "excluded"}
ScannedFiles == SeqUpTo(FileKinds, MaxFiles)

\* baseSourceDir + filePath of file k of directory d.
AbsPath(d, k) == <<d, k>>

\* The work item std::bind(workItem, absPath, filePath) as queued.
ParseWorkItem(d, k, kind) == [absPath |-> AbsPath(d, k), kind |-> kind, pc |-> "queued", seen |-> {}]

\* The items a worker thread is executing.
ItemsRunning == {i \in 1 .. Len(parse.items) : parse.items[i].pc \notin {"queued", "completed"}}

\* WorkQueue::IsCompleted(0): every work item added has completed.
IsCompleted == \A i \in 1 .. Len(parse.items) : parse.items[i].pc = "completed"

\* ParseFiles is entered: sourceDir_ is set, the loop over `parse` begins.
ParseFilesBegin ==
    /\ parse.pc = "idle"
    /\ parse' = [parse EXCEPT !.pc = "scan", !.dir = 1]
    /\ UNCHANGED <<componentVars, ui, input, generate, scissor>>

\* One `parse` entry up to the loop over its files: ScanDirectory fails
\* (continue) or gives the files; Mutex m and the lambda are constructed.
ScanDirectory ==
    /\ parse.pc = "scan"
    /\ parse.dir <= MaxDirectories
    /\ \/ parse' = [parse EXCEPT !.dir = @ + 1]
       \/ \E files \in ScannedFiles :
            parse' = [parse EXCEPT
                !.pc = "add", !.sourceFiles = files, !.next = 1,
                !.mAlive = TRUE, !.m = 0, !.items = <<>>,
                !.expected = @ \cup {AbsPath(parse.dir, k) :
                                        k \in {j \in 1 .. Len(files) : files[j] = "ok"}}]
    /\ UNCHANGED <<componentVars, ui, input, generate, scissor>>

\* One pass of `for (const auto& filePath : sourceFiles)`.
AddParseWorkItem ==
    /\ parse.pc = "add"
    /\ parse.next <= Len(parse.sourceFiles)
    /\ parse' = [parse EXCEPT
            !.next = @ + 1,
            !.items = IF parse.sourceFiles[parse.next] = "excluded" THEN @
                      ELSE Append(@, ParseWorkItem(parse.dir, parse.next,
                                                   parse.sourceFiles[parse.next]))]
    /\ UNCHANGED <<componentVars, ui, input, generate, scissor>>

\* The loop over the files ends; the wait loop begins.
BeginWait ==
    /\ parse.pc = "add"
    /\ parse.next > Len(parse.sourceFiles)
    /\ parse' = [parse EXCEPT !.pc = "wait"]
    /\ UNCHANGED <<componentVars, ui, input, generate, scissor>>

\* while (!IsCompleted(0)) ends: m and the lambda go out of scope and the
\* loop goes to the next `parse` entry.
EndWait ==
    /\ parse.pc = "wait"
    /\ IsCompleted
    /\ parse' = [parse EXCEPT !.pc = "scan", !.dir = @ + 1, !.mAlive = FALSE]
    /\ UNCHANGED <<componentVars, ui, input, generate, scissor>>

\* return true, after the last `parse` entry.
ParseFilesReturn ==
    /\ parse.pc = "scan"
    /\ parse.dir > MaxDirectories
    /\ parse' = [parse EXCEPT !.pc = "done"]
    /\ UNCHANGED <<componentVars, ui, input, generate, scissor>>

\* A worker thread takes a queued item and calls the lambda.
TakeParseWorkItem ==
    /\ Cardinality(ItemsRunning) < MaxWorkerThreads
    /\ \E i \in 1 .. Len(parse.items) :
        /\ parse.items[i].pc = "queued"
        /\ parse' = [parse EXCEPT !.items[i].pc = "parse",
                                  !.racing = @ \/ ~parse.mAlive]
    /\ UNCHANGED <<componentVars, ui, input, generate, scissor>>

\* parser.parse(...): on parser.error() the item logs and ends, else it
\* goes on to MutexLock scoped(m).
ParseFile ==
    /\ \E i \in 1 .. Len(parse.items) :
        /\ parse.items[i].pc = "parse"
        /\ parse' = [parse EXCEPT
                !.items[i].pc = IF parse.items[i].kind = "error" THEN "return" ELSE "lock",
                !.contended = @ \/ (parse.items[i].kind # "error" /\ parse.m # 0),
                !.racing = @ \/ ~parse.mAlive]
    /\ UNCHANGED <<componentVars, ui, input, generate, scissor>>

\* Mutation: the lock is taken whether or not another item holds it.
MutexLock_NoExclusion ==
    /\ \E i \in 1 .. Len(parse.items) :
        /\ parse.items[i].pc = "lock"
        /\ parse' = [parse EXCEPT !.m = i, !.items[i].pc = "insert",
                                  !.items[i].seen = parse.parsed_,
                                  !.racing = @ \/ ~parse.mAlive]
    /\ UNCHANGED <<componentVars, ui, input, generate, scissor>>

\* MutexLock scoped(m), and parsed_[absPath] begins: the map is read.
MutexLock ==
    /\ parse.m = 0
    /\ \E i \in 1 .. Len(parse.items) :
        /\ parse.items[i].pc = "lock"
        /\ parse' = [parse EXCEPT !.m = i, !.items[i].pc = "insert",
                                  !.items[i].seen = parse.parsed_,
                                  !.racing = @ \/ ~parse.mAlive]
    /\ UNCHANGED <<componentVars, ui, input, generate, scissor>>

\* parsed_[absPath] = std::move(file) ends: the map as read, with the
\* entry; then the lock is released.
InsertParsed ==
    /\ \E i \in 1 .. Len(parse.items) :
        /\ parse.items[i].pc = "insert"
        /\ parse' = [parse EXCEPT
                !.parsed_ = parse.items[i].seen \cup {parse.items[i].absPath},
                !.m = IF @ = i THEN 0 ELSE @,
                !.items[i].pc = "return",
                !.racing = @ \/ ~parse.mAlive]
    /\ UNCHANGED <<componentVars, ui, input, generate, scissor>>

\* The lambda returns and the worker marks the item completed.
CompleteParseWorkItem ==
    /\ \E i \in 1 .. Len(parse.items) :
        /\ parse.items[i].pc = "return"
        /\ parse' = [parse EXCEPT !.items[i].pc = "completed"]
    /\ UNCHANGED <<componentVars, ui, input, generate, scissor>>

NextParse ==
    \/ ParseFilesBegin
    \/ ScanDirectory
    \/ AddParseWorkItem
    \/ BeginWait
    \/ EndWait
    \/ ParseFilesReturn
    \/ TakeParseWorkItem
    \/ ParseFile
    \/ MutexLock
    \/ InsertParsed
    \/ CompleteParseWorkItem

SpecParse == InitFactory /\ [][NextParse]_vars

\* --------------------------------------------- GeneratorContext::Generate

\* The overlay entities: apiRoot_ (1, a namespace) holds a class (2) and a
\* function (3); the class holds a member variable (4), the function a
\* parameter (5); an enum (6) is in no children_ list yet.
ApiRoot == 1
SpareEntity == 6
EntityKind(e) ==
    CASE e = 1 -> "namespace_t"
      [] e = 2 -> "class_t"
      [] e = 3 -> "function_t"
      [] e = 4 -> "member_variable_t"
      [] e = 5 -> "function_parameter_t"
      [] OTHER -> "enum_t"

\* The switch of visitOverlayEntity: the kinds that get
\* container_entity_enter; every other kind gets leaf_entity.
ContainerKinds ==
    {"file_t", "language_linkage_t", "namespace_t", "enum_t", "class_t",
     "function_template_t", "class_template_t"}
EnterEvent(e) ==
    IF EntityKind(e) \in ContainerKinds THEN "container_entity_enter" ELSE "leaf_entity"

\* What a pass's Visit may do to the overlay: nothing, take the entity out
\* of every children_ list, or put the spare entity under the entity.
RemoveFrom(list, e) == SelectSeq(list, LAMBDA c : c # e)
ChildrenAfterVisit(children, e) ==
    {children,
     [p \in DOMAIN children |-> RemoveFrom(children[p], e)]}
    \cup (IF \E p \in DOMAIN children : \E k \in 1 .. Len(children[p]) :
                children[p][k] = SpareEntity
          THEN {}
          ELSE {[children EXCEPT ![e] = Append(@, SpareEntity)]})

\* A call made on a pass, as logged.
PassCall(kind, pass, op, file) == [kind |-> kind, pass |-> pass, op |-> op, file |-> file]

\* pass->Visit(entity, info) of the overlay traversal, as logged: depth is
\* the depth of the recursion, children the entity's children_ when the
\* call returned.
VisitCall(pass, e, event, result, depth, children) ==
    [pass |-> pass, entity |-> e, event |-> event, result |-> result,
     depth |-> depth, children |-> children]

\* Generate is entered with its passes and parsed files.
GenerateBegin ==
    /\ generate.pc = "idle"
    /\ \E numCpp \in 0 .. MaxPasses, numApi \in 0 .. MaxPasses, numFiles \in 0 .. MaxFiles :
        generate' = [generate EXCEPT !.pc = "cpp", !.numCpp = numCpp,
                                     !.numApi = numApi, !.numFiles = numFiles,
                                     !.pass = 1]
    /\ UNCHANGED <<componentVars, ui, input, parse, scissor>>

\* for (const auto& pass : cppPasses_): pass->Start()
CppPassStart ==
    /\ generate.pc = "cpp"
    /\ generate.pass <= generate.numCpp
    /\ generate' = [generate EXCEPT
            !.pc = "cppFiles", !.file = 1,
            !.tick = ~@,
            !.last = PassCall("cpp", generate.pass, "Start", 0)]
    /\ UNCHANGED <<componentVars, ui, input, parse, scissor>>

\* for (const auto& pair : parsed_): pass->StartFile(pair.first)
CppStartFile ==
    /\ generate.pc = "cppFiles"
    /\ generate.file <= generate.numFiles
    /\ generate' = [generate EXCEPT
            !.pc = "cppVisit", !.visited = 0,
            !.tick = ~@,
            !.last = PassCall("cpp", generate.pass, "StartFile", generate.file)]
    /\ UNCHANGED <<componentVars, ui, input, parse, scissor>>

\* cppast::visit calls the lambda for an entity: a file, a templated or a
\* friended entity is skipped, any other goes to pass->Visit(e, info).
CppVisit ==
    /\ generate.pc = "cppVisit"
    /\ generate.visited < MaxVisits
    /\ \E skipped \in BOOLEAN :
        generate' = [generate EXCEPT
            !.visited = @ + 1,
            !.tick = IF skipped THEN @ ELSE ~@,
            !.last = IF skipped THEN @
                     ELSE PassCall("cpp", generate.pass, "Visit", generate.file)]
    /\ UNCHANGED <<componentVars, ui, input, parse, scissor>>

\* cppast::visit returns: pass->StopFile(pair.first)
CppStopFile ==
    /\ generate.pc = "cppVisit"
    /\ generate' = [generate EXCEPT
            !.pc = "cppFiles", !.file = @ + 1,
            !.tick = ~@,
            !.last = PassCall("cpp", generate.pass, "StopFile", generate.file)]
    /\ UNCHANGED <<componentVars, ui, input, parse, scissor>>

\* The loop over the files ends: pass->Stop()
CppPassStop ==
    /\ generate.pc = "cppFiles"
    /\ generate.file > generate.numFiles
    /\ generate' = [generate EXCEPT
            !.pc = "cpp", !.pass = @ + 1,
            !.tick = ~@,
            !.last = PassCall("cpp", generate.pass, "Stop", 0)]
    /\ UNCHANGED <<componentVars, ui, input, parse, scissor>>

\* The loop over cppPasses_ ends; the loop over apiPasses_ begins.
CppPassesEnd ==
    /\ generate.pc = "cpp"
    /\ generate.pass > generate.numCpp
    /\ generate' = [generate EXCEPT !.pc = "api", !.pass = 1]
    /\ UNCHANGED <<componentVars, ui, input, parse, scissor>>

\* One activation of visitOverlayEntity: the entity, the copy of its
\* children, the child the loop is at.
Activation(e, childrenCopy, at) == [entity |-> e, childrenCopy |-> childrenCopy, at |-> at]

\* for (const auto& pass : apiPasses_): pass->Start();
\* visitOverlayEntity(pass.get(), apiRoot_) is called.
ApiPassStart ==
    /\ generate.pc = "api"
    /\ generate.pass <= generate.numApi
    /\ generate' = [generate EXCEPT
            !.pc = "overlay",
            !.tick = ~@,
            !.last = PassCall("api", generate.pass, "Start", 0),
            !.visits = <<>>,
            !.stack = <<Activation(ApiRoot, <<>>, 0)>>]
    /\ UNCHANGED <<componentVars, ui, input, parse, scissor>>

\* Mutation: the children are visited whatever the enter-visit returned.
VisitOverlayEntity_IgnoresResult ==
    /\ generate.pc = "overlay"
    /\ Len(generate.stack) > 0
    /\ generate.stack[Len(generate.stack)].at = 0
    /\ LET depth == Len(generate.stack)
           e == generate.stack[depth].entity
           event == EnterEvent(e)
       IN \E result \in BOOLEAN, children \in ChildrenAfterVisit(generate.children_, e) :
            generate' = [generate EXCEPT
                !.children_ = children,
                !.visits = Append(@, VisitCall(generate.pass, e, event, result,
                                               depth, children[e])),
                !.stack = IF event = "container_entity_enter"
                          THEN [@ EXCEPT ![depth] = Activation(e, children[e], 1)]
                          ELSE SubSeq(@, 1, depth - 1)]
    /\ UNCHANGED <<componentVars, ui, input, parse, scissor>>

\* visitOverlayEntity up to the loop over the children: the switch, the
\* first pass->Visit(entity, info) and, when it returned true for a
\* container, the copy of the children.
VisitOverlayEntity ==
    /\ generate.pc = "overlay"
    /\ Len(generate.stack) > 0
    /\ generate.stack[Len(generate.stack)].at = 0
    /\ LET depth == Len(generate.stack)
           e == generate.stack[depth].entity
           event == EnterEvent(e)
       IN \E result \in BOOLEAN, children \in ChildrenAfterVisit(generate.children_, e) :
            generate' = [generate EXCEPT
                !.children_ = children,
                !.visits = Append(@, VisitCall(generate.pass, e, event, result,
                                               depth, children[e])),
                !.stack = IF result /\ event = "container_entity_enter"
                          THEN [@ EXCEPT ![depth] = Activation(e, children[e], 1)]
                          ELSE SubSeq(@, 1, depth - 1)]
    /\ UNCHANGED <<componentVars, ui, input, parse, scissor>>

\* for (const auto& childEntity : childrenCopy)
\*     visitOverlayEntity(pass, childEntity.Get());
VisitChild ==
    /\ generate.pc = "overlay"
    /\ Len(generate.stack) > 0
    /\ LET depth == Len(generate.stack)
           top == generate.stack[depth]
       IN /\ top.at >= 1
          /\ top.at <= Len(top.childrenCopy)
          /\ generate' = [generate EXCEPT
                !.stack = Append([@ EXCEPT ![depth].at = top.at + 1],
                                 Activation(top.childrenCopy[top.at], <<>>, 0))]
    /\ UNCHANGED <<componentVars, ui, input, parse, scissor>>

\* The loop over the copy ends: info.event = container_entity_exit;
\* pass->Visit(entity, info), whose result is not looked at; the
\* activation returns.
VisitExit ==
    /\ generate.pc = "overlay"
    /\ Len(generate.stack) > 0
    /\ LET depth == Len(generate.stack)
           top == generate.stack[depth]
       IN /\ top.at > Len(top.childrenCopy)
          /\ generate' = [generate EXCEPT
                !.visits = Append(@, VisitCall(generate.pass, top.entity,
                               "container_entity_exit", TRUE, depth,
                               generate.children_[top.entity])),
                !.stack = SubSeq(@, 1, depth - 1)]
    /\ UNCHANGED <<componentVars, ui, input, parse, scissor>>

\* visitOverlayEntity(pass.get(), apiRoot_) returned: pass->Stop()
ApiPassStop ==
    /\ generate.pc = "overlay"
    /\ Len(generate.stack) = 0
    /\ generate' = [generate EXCEPT
            !.pc = "api", !.pass = @ + 1, !.visits = <<>>,
            !.tick = ~@,
            !.last = PassCall("api", generate.pass, "Stop", 0)]
    /\ UNCHANGED <<componentVars, ui, input, parse, scissor>>

\* The loop over apiPasses_ ends and Generate returns.
GenerateReturn ==
    /\ generate.pc = "api"
    /\ generate.pass > generate.numApi
    /\ generate' = [generate EXCEPT !.pc = "done"]
    /\ UNCHANGED <<componentVars, ui, input, parse, scissor>>

NextGenerate ==
    \/ GenerateBegin
    \/ CppPassStart
    \/ CppStartFile
    \/ CppVisit
    \/ CppStopFile
    \/ CppPassStop
    \/ CppPassesEnd
    \/ ApiPassStart
    \/ VisitOverlayEntity
    \/ VisitChild
    \/ VisitExit
    \/ ApiPassStop
    \/ GenerateReturn

SpecGenerate == InitFactory /\ [][NextGenerate]_vars

\* ================================================================== claims

\* The drawables the frustum query returned.
Queried == {baseDrawables[j] : j \in 1 .. Len(baseDrawables)}
\* Drawable d is in the per-worker list `field` of some thread.
Listed(d, field) ==
    \E t \in DOMAIN visibleDrawables :
        \E j \in 1 .. Len(visibleDrawables[t][field]) :
            visibleDrawables[t][field][j] = d
\* The drawable's attributes, read from the scene.
BeyondDrawDistance(d) ==
    /\ KindOf(scene[d]).drawDistance > 0
    /\ KindOf(scene[d]).distance > KindOf(scene[d]).drawDistance
HasGeometryFlag(d) == KindOf(scene[d]).flags = DRAWABLE_GEOMETRY
HasLightFlag(d) == KindOf(scene[d]).flags = DRAWABLE_LIGHT
HalfDiagonalSquared(d) == LengthSquared(BoxHalfSize(KindOf(scene[d]).box))
IsInfinite(d) == HalfDiagonalSquared(d) >= M_LARGE_VALUE * M_LARGE_VALUE
\* Thread t is executing a loop iteration in this step, for this drawable.
Processes(t) == running[t].busy /\ running[t].i < running[t].toIndex
CurrentDrawable(t) == baseDrawables[running[t].i + 1]

\* ---- C1
\* C1: once primary-drawable processing has returned, no drawable with a
\* draw distance > 0 whose distance exceeds it is in any per-worker
\* visible-geometries or visible-lights list.
C1_TooFarNotListed ==
    pc = "returned" =>
        \A d \in DOMAIN scene :
            BeyondDrawDistance(d) =>
                ~Listed(d, "geometries") /\ ~Listed(d, "lights")

\* A frame has returned in which a too-far drawable was processed next to a
\* drawable that was listed.
C1_Witness ==
    /\ pc = "returned"
    /\ \E d \in Queried : BeyondDrawDistance(d) /\ d \in batchesUpdated
    /\ \E d \in Queried : Listed(d, "geometries") \/ Listed(d, "lights")

\* ---- C2
\* C2 as stated: after processing, every queried geometry with an infinite
\* bounding box has the sentinel Z range in its slot.
C2_Original ==
    pc = "returned" =>
        \A d \in Queried :
            HasGeometryFlag(d) /\ IsInfinite(d) =>
                drawableZRanges[d] = <<M_LARGE_VALUE, M_LARGE_VALUE>>

\* C2 (amended): whenever a thread processes a geometry with an infinite
\* bounding box that is not beyond its draw distance, the step stores the
\* sentinel {LARGE, LARGE} in the drawable's slot, appends it to the
\* thread's geometry list and leaves the thread's aggregate Z range as it
\* was before the step.
C2_InfiniteGeometryStep ==
    [][\A t \in DOMAIN running :
          (/\ Processes(t)
           /\ running'[t] # running[t]
           /\ HasGeometryFlag(CurrentDrawable(t))
           /\ IsInfinite(CurrentDrawable(t))
           /\ ~BeyondDrawDistance(CurrentDrawable(t)))
          => /\ drawableZRanges'[CurrentDrawable(t)] =
                    <<M_LARGE_VALUE, M_LARGE_VALUE>>
             /\ visibleDrawables'[t].zRange = visibleDrawables[t].zRange
             /\ visibleDrawables'[t].geometries =
                    Append(visibleDrawables[t].geometries, CurrentDrawable(t))
      ]_vars

\* A thread's list ends with an infinite geometry processed after a finite
\* one: its slot holds the sentinel and the aggregate is the finite range.
C2_Witness ==
    \E t \in DOMAIN visibleDrawables :
        LET g == visibleDrawables[t].geometries
        IN /\ Len(g) >= 2
           /\ IsInfinite(g[Len(g)])
           /\ ~IsInfinite(g[1])
           /\ drawableZRanges[g[Len(g)]] = <<M_LARGE_VALUE, M_LARGE_VALUE>>
           /\ visibleDrawables[t].zRange[1] <= visibleDrawables[t].zRange[2]
           /\ visibleDrawables[t].zRange[2] < M_LARGE_VALUE

\* ---- C3
\* C3: no light whose effective colour is black or whose effective light
\* mask is 0 is ever in a visible-lights list, and once processing has
\* returned every other queried light within its draw distance is in one.
C3_LightsListed ==
    /\ \A d \in DOMAIN scene :
          (KindOf(scene[d]).black \/ KindOf(scene[d]).lightMask = 0) =>
              ~Listed(d, "lights")
    /\ pc = "returned" =>
          \A d \in Queried :
              (/\ HasLightFlag(d)
               /\ ~KindOf(scene[d]).black
               /\ KindOf(scene[d]).lightMask # 0
               /\ ~BeyondDrawDistance(d)) => Listed(d, "lights")

\* A frame has returned with a lit light listed and a black or masked-out
\* light processed.
C3_Witness ==
    /\ pc = "returned"
    /\ \E d \in Queried : Listed(d, "lights")
    /\ \E d \in Queried :
          /\ HasLightFlag(d)
          /\ KindOf(scene[d]).black \/ KindOf(scene[d]).lightMask = 0
          /\ d \in batchesUpdated

\* ---- C4
\* ceil(n / w), from its definition.
CeilDiv(n, w) == CHOOSE c \in 0 .. n : c * w >= n /\ (c = 0 \/ (c - 1) * w < n)
\* The indices work item k (1-based in workItems) iterates over.
ItemIndices(k) ==
    {p \in 0 .. Len(baseDrawables) + 1 :
        workItems[k].fromIndex <= p /\ p < workItems[k].toIndex}

\* C4: when the dispatch loop has run for N drawables and W >= 1 threads,
\* there are W work items with ranges [i*perItem, min((i+1)*perItem, N)),
\* perItem = ceil(N/W), and every index of [0, N) is in exactly one of them
\* and no other index is in any.
C4_PartitionCoversOnce ==
    pc = "complete" =>
        LET n == Len(baseDrawables)
            perItem == CeilDiv(n, numThreads_)
        IN /\ Len(workItems) = numThreads_
           /\ \A k \in 1 .. Len(workItems) :
                 /\ workItems[k].fromIndex = (k - 1) * perItem
                 /\ workItems[k].toIndex = Min(k * perItem, n)
                 /\ ItemIndices(k) \subseteq 0 .. n - 1
           /\ \A p \in 0 .. n - 1 :
                 Cardinality({k \in 1 .. Len(workItems) : p \in ItemIndices(k)}) = 1

\* Seven drawables were split over three threads: [0,3), [3,6), [6,7).
C4_Witness ==
    /\ pc = "complete"
    /\ Len(baseDrawables) = 7
    /\ numThreads_ = 3
    /\ workItems[3].fromIndex = 6
    /\ workItems[3].toIndex = 7

\* ---- C5
\* C5 as stated: when N is not divisible by W, every work item has
\* fromIndex < toIndex <= N.
C5_Original ==
    (pc = "complete" /\ Len(baseDrawables) % numThreads_ # 0) =>
        \A k \in 1 .. Len(workItems) :
            /\ workItems[k].fromIndex < workItems[k].toIndex
            /\ workItems[k].toIndex <= Len(baseDrawables)

\* C5 (amended): when N is not divisible by W, every work item has
\* toIndex <= N and iterates only over indices of [0, N); the first work
\* item is not empty; a work item whose fromIndex is below N is not empty
\* (the last such one may be short), and one whose fromIndex is N or more
\* has toIndex = N <= fromIndex, an empty range whose loop body never runs.
C5_RangesInBounds ==
    (pc = "complete" /\ Len(baseDrawables) % numThreads_ # 0) =>
        LET n == Len(baseDrawables)
        IN /\ workItems[1].fromIndex = 0 /\ workItems[1].toIndex > 0
           /\ \A k \in 1 .. Len(workItems) :
                 /\ workItems[k].toIndex <= n
                 /\ ItemIndices(k) \subseteq 0 .. n - 1
                 /\ workItems[k].fromIndex < n =>
                        workItems[k].fromIndex < workItems[k].toIndex
                 /\ workItems[k].fromIndex >= n =>
                        (workItems[k].toIndex = n /\ ItemIndices(k) = {})

\* Five drawables were split over four threads: the third range is short
\* and the fourth is [6, 5), empty with fromIndex beyond N.
C5_Witness ==
    /\ pc = "complete"
    /\ Len(baseDrawables) = 5
    /\ numThreads_ = 4
    /\ workItems[3].fromIndex = 4 /\ workItems[3].toIndex = 5
    /\ workItems[4].fromIndex = 6 /\ workItems[4].toIndex = 5

\* ---- C6
\* What the frame must list, from the query result alone.
ExpectedGeometries ==
    {d \in Queried : HasGeometryFlag(d) /\ ~BeyondDrawDistance(d)}
ExpectedLights ==
    {d \in Queried :
        /\ HasLightFlag(d)
        /\ ~BeyondDrawDistance(d)
        /\ ~KindOf(scene[d]).black
        /\ KindOf(scene[d]).lightMask # 0}
ListedSet(field) == {d \in DOMAIN scene : Listed(d, field)}

\* C6: after the barrier the union of the per-worker geometry lists, and of
\* the light lists, is the set the query result determines, whichever
\* threads ran the work items and in whatever order, and every qualifying
\* drawable (infinite ones included) occurs exactly once.
C6_AggregateSetDeterministic ==
    pc = "returned" =>
        /\ ListedSet("geometries") = ExpectedGeometries
        /\ Len(MergedGeometries) = Cardinality(ExpectedGeometries)
        /\ ListedSet("lights") = ExpectedLights
        /\ Len(MergedLights) = Cardinality(ExpectedLights)

\* A frame has returned in which a worker thread (not the main thread)
\* listed an infinite geometry and another thread listed something too.
C6_Witness ==
    /\ pc = "returned"
    /\ \E t \in DOMAIN visibleDrawables :
          /\ t >= 1
          /\ \E j \in 1 .. Len(visibleDrawables[t].geometries) :
                IsInfinite(visibleDrawables[t].geometries[j])
          /\ \E u \in DOMAIN visibleDrawables :
                /\ u # t
                /\ Len(visibleDrawables[u].geometries)
                       + Len(visibleDrawables[u].lights) > 0

\* ---- C7
\* The memory a work item writes while thread t runs it: the trait and
\* Z-range slots of the drawables of its range, those drawables' own batch
\* data, and the accumulation slot of the executing thread.
WriteSet(t) ==
    {<<"worker", t>>}
        \cup UNION {{<<"trait", baseDrawables[p + 1]>>,
                     <<"zRange", baseDrawables[p + 1]>>,
                     <<"batches", baseDrawables[p + 1]>>} :
                    p \in {q \in 0 .. Len(baseDrawables) - 1 :
                              running[t].fromIndex <= q /\ q < running[t].toIndex}}

\* C7: two work items that are running at the same time write disjoint
\* memory: their drawables' trait and Z-range slots differ and so do their
\* accumulation slots; and no work item runs on two threads at once.
C7_DisjointWrites ==
    \A t, u \in DOMAIN running :
        (t # u /\ running[t].busy /\ running[u].busy) =>
            /\ WriteSet(t) \cap WriteSet(u) = {}
            /\ running[t].item # running[u].item

\* Two threads are inside non-empty work items at the same time.
C7_Witness ==
    \E t, u \in DOMAIN running :
        /\ t # u
        /\ Processes(t)
        /\ Processes(u)

\* ---- C8
\* C8: processing returns only when every work item dispatched for the
\* frame has run to completion: none is queued, none is running, and all
\* numThreads_ of them are completed.
C8_ReturnAfterAllComplete ==
    pc = "returned" =>
        /\ queue = <<>>
        /\ \A t \in DOMAIN running : ~running[t].busy
        /\ Len(workItems) = numThreads_
        /\ completed = {workItems[k].id : k \in 1 .. Len(workItems)}
        /\ batchesUpdated = Queried

\* Processing has returned from a frame in which a worker thread listed a
\* drawable.
C8_Witness ==
    /\ pc = "returned"
    /\ numThreads_ >= 2
    /\ \E t \in DOMAIN visibleDrawables :
          t >= 1 /\ Len(visibleDrawables[t].geometries) > 0

\* ---- C9
\* C9 as stated: UpdateBatches is never performed for a drawable that is
\* beyond its draw distance.
C9_Original ==
    \A d \in DOMAIN scene : BeyondDrawDistance(d) => d \notin batchesUpdated

\* The value a Z-range slot has after the frame's reset.
ResetZRange == IF impl = "CustomView" THEN InvalidRange ELSE <<0, 0>>

\* C9 (amended): a queried drawable that is beyond its draw distance still
\* gets its batch update and its trait bit; what is skipped is the rest:
\* it is in no list and its Z-range slot keeps its reset value.
C9_TooFarSkippedAfterUpdate ==
    pc = "returned" =>
        \A d \in Queried :
            BeyondDrawDistance(d) =>
                /\ d \in batchesUpdated
                /\ drawableTraits[d] # 0
                /\ ~Listed(d, "geometries")
                /\ ~Listed(d, "lights")
                /\ drawableZRanges[d] = ResetZRange

\* Processing has returned from a frame with a too-far geometry and a
\* too-far light, both updated.
C9_Witness ==
    /\ pc = "returned"
    /\ \E d \in Queried :
          BeyondDrawDistance(d) /\ HasGeometryFlag(d) /\ d \in batchesUpdated
    /\ \E d \in Queried :
          BeyondDrawDistance(d) /\ HasLightFlag(d) /\ d \in batchesUpdated

\* ---- C10
\* The query position (0-based) of a queried drawable and the work item
\* whose range holds it.
QueryPos(d) == CHOOSE p \in 0 .. Len(baseDrawables) - 1 : baseDrawables[p + 1] = d
ItemOf(d) == CHOOSE k \in 1 .. Len(workItems) : QueryPos(d) \in ItemIndices(k)
RangeOrdered(list) ==
    \A a, b \in 1 .. Len(list) : a < b => ItemOf(list[a]) <= ItemOf(list[b])

\* C10 as stated: in the merged lists a drawable of a lower index range
\* precedes every drawable of a higher index range.
C10_Original ==
    pc = "returned" =>
        RangeOrdered(MergedGeometries) /\ RangeOrdered(MergedLights)

\* Within one per-worker list, the drawables of one work item are next to
\* each other and in query order.
SlotOrdered(list) ==
    \A a, b \in 1 .. Len(list) :
        (a < b /\ ItemOf(list[a]) = ItemOf(list[b])) =>
            /\ QueryPos(list[a]) < QueryPos(list[b])
            /\ \A c \in a .. b : ItemOf(list[c]) = ItemOf(list[a])

\* C10 (amended): the merged lists are in thread-slot order, not in
\* index-range order: each is the per-worker lists concatenated by
\* ascending executing-thread index, and inside a per-worker list the
\* drawables of one work item are contiguous and in ascending query
\* order.  A drawable of a higher range precedes one of a lower range
\* whenever a lower-indexed thread ran its work item.
C10_SlotOrder ==
    pc = "returned" =>
        /\ \A t \in DOMAIN visibleDrawables :
              /\ SlotOrdered(visibleDrawables[t].geometries)
              /\ SlotOrdered(visibleDrawables[t].lights)
        /\ \A a, b \in 1 .. Len(MergedGeometries) :
              a < b =>
                  \E t, u \in DOMAIN visibleDrawables :
                      /\ t <= u
                      /\ \E j \in 1 .. Len(visibleDrawables[t].geometries) :
                            visibleDrawables[t].geometries[j] = MergedGeometries[a]
                      /\ \E j \in 1 .. Len(visibleDrawables[u].geometries) :
                            visibleDrawables[u].geometries[j] = MergedGeometries[b]

\* Processing has returned with a geometry of a higher index range ahead of
\* one of a lower range in the merged list: a lower-indexed thread ran the
\* later work item.
C10_Witness ==
    /\ pc = "returned"
    /\ \E a, b \in 1 .. Len(MergedGeometries) :
          a < b /\ ItemOf(MergedGeometries[a]) > ItemOf(MergedGeometries[b])

\* ---- C11
\* C11 as stated: whenever a thread is about to run a loop iteration of a
\* work item, the drawable's index is inside the trait and Z-range arrays
\* as the frame's reset sized them, and the thread's index is inside the
\* per-worker array, whatever Define, Update, scene changes and Render
\* came before.
C11_Original ==
    \A t \in DOMAIN running :
        (running[t].busy /\ running[t].i < running[t].toIndex) =>
            /\ baseDrawables[running[t].i + 1] \in DOMAIN drawableTraits
            /\ baseDrawables[running[t].i + 1] \in DOMAIN drawableZRanges
            /\ t \in DOMAIN visibleDrawables

\* ---- C12
\* The light's attributes, as HasShadow was given them.
ShadowDistanceAllows(light) ==
    light.shadowDistance <= 0 \/ light.distance <= light.shadowDistance

\* C12: HasShadow returns true exactly when shadow drawing is enabled
\* globally, the light casts shadows, its importance is not
\* LI_NOT_IMPORTANT, its shadow intensity is below 1.0, no shadow distance
\* is configured (<= 0) or the light's distance does not exceed it, and,
\* on a build without cube-shadow support, the light is not a point light.
C12_HasShadowExactly ==
    shadowCall.op = "HasShadow" =>
        (shadowCall.result = TRUE
            <=> /\ shadowCall.drawShadows
                /\ shadowCall.light.castShadows
                /\ shadowCall.light.lightImportance # "LI_NOT_IMPORTANT"
                /\ shadowCall.light.shadowIntensity < 10
                /\ ShadowDistanceAllows(shadowCall.light)
                /\ shadowCall.glES => shadowCall.light.lightType # "LIGHT_POINT")

\* HasShadow returned true for a point light that is exactly at its
\* configured shadow distance.
C12_Witness ==
    /\ shadowCall.op = "HasShadow"
    /\ shadowCall.result = TRUE
    /\ shadowCall.light.lightType = "LIGHT_POINT"
    /\ shadowCall.light.shadowDistance > 0
    /\ shadowCall.light.distance = shadowCall.light.shadowDistance

\* ---- C15
\* CULL_CW and CULL_CCW exchanged, CULL_NONE kept.
Swapped(mode) ==
    CASE mode = "CULL_CW" -> "CULL_CCW"
      [] mode = "CULL_CCW" -> "CULL_CW"
      [] OTHER -> mode

\* C15: GetEffectiveCullMode swaps CULL_CW and CULL_CCW when a camera is
\* given and reverses culling, and returns the mode unchanged with no
\* camera, a camera that does not reverse, or CULL_NONE; applied twice
\* with a reversing camera it returns the original mode.
C15_CullModeSwap ==
    cullCall.op = "GetEffectiveCullMode" =>
        LET reverses == cullCall.camera.given /\ cullCall.camera.reverseCulling
        IN /\ (cullCall.applied = 1 /\ reverses) =>
                  cullCall.result = Swapped(cullCall.original)
           /\ (cullCall.applied = 1 /\ ~reverses) =>
                  cullCall.result = cullCall.original
           /\ cullCall.original = "CULL_NONE" => cullCall.result = "CULL_NONE"
           /\ cullCall.applied = 2 => cullCall.result = cullCall.original

\* CULL_CW went through a reversing camera twice and is CULL_CW again.
C15_Witness ==
    /\ cullCall.op = "GetEffectiveCullMode"
    /\ cullCall.applied = 2
    /\ cullCall.camera.given /\ cullCall.camera.reverseCulling
    /\ cullCall.original = "CULL_CW"
    /\ cullCall.result = "CULL_CW"

SameKeyAndLight(a, b) ==
    /\ a.geometry = b.geometry
    /\ a.material = b.material
    /\ a.pass = b.pass
    /\ a.light = b.light

\* C14 as stated: two calls with the same geometry, material, pass and
\* light produce equal descriptions, whatever else differs.
C14_Original ==
    \A i, j \in 1 .. Len(pipelineCalls) :
        SameKeyAndLight(pipelineCalls[i], pipelineCalls[j]) =>
            pipelineCalls[i].desc = pipelineCalls[j].desc

\* The camera reverses culling.
Reverses(cam) == cam.given /\ cam.reverseCulling

\* C14 (amended): the description is a function of geometry, material,
\* pass and light together with the camera's reverse-culling flag and the
\* constant-buffers setting: two calls with the same geometry, material,
\* pass and light produce equal descriptions if both of these agree; a
\* different constant-buffers setting gives different shaders, and a
\* different reverse-culling flag gives a different cull mode unless the
\* material's is CULL_NONE.  No other field differs.
C14_PureInKeyLightCameraSettings ==
    \A i, j \in 1 .. Len(pipelineCalls) :
        LET a == pipelineCalls[i]
            b == pipelineCalls[j]
        IN SameKeyAndLight(a, b) =>
              /\ (a.desc.vertexShader = b.desc.vertexShader
                     <=> a.constantBuffersEnabled = b.constantBuffersEnabled)
              /\ (a.desc.pixelShader = b.desc.pixelShader
                     <=> a.constantBuffersEnabled = b.constantBuffersEnabled)
              /\ (a.desc.cullMode = b.desc.cullMode
                     <=> \/ Reverses(a.camera) = Reverses(b.camera)
                         \/ a.material.cullMode = "CULL_NONE")
              /\ [a.desc EXCEPT !.vertexShader = 0, !.pixelShader = 0,
                                !.cullMode = 0]
                     = [b.desc EXCEPT !.vertexShader = 0, !.pixelShader = 0,
                                      !.cullMode = 0]

\* Two calls with the same geometry, material, pass and light and the same
\* constant-buffers setting built descriptions that differ: one camera
\* reverses culling.
C14_Witness ==
    \E i, j \in 1 .. Len(pipelineCalls) :
        /\ SameKeyAndLight(pipelineCalls[i], pipelineCalls[j])
        /\ pipelineCalls[i].light.given
        /\ pipelineCalls[i].constantBuffersEnabled
               = pipelineCalls[j].constantBuffersEnabled
        /\ pipelineCalls[i].desc.cullMode = "CULL_CCW"
        /\ pipelineCalls[j].desc.cullMode = "CULL_CW"


\* ---------------------------------------------------------------- Render

\* The positions of an event in what reached the device.
EventPositions(event) ==
    {k \in 1 .. Len(submitted) : submitted[k].event = event}

\* The (light, split) pairs of the frame.
FrameSplits ==
    {ls \in (1 .. MaxLights + 1) \X (1 .. MaxSplits + 1) :
        /\ ls[1] <= Len(collected.visibleLights)
        /\ ls[2] <= Len(collected.visibleLights[ls[1]])}

\* The queued commands of a pass.
QueuedOf(pass) ==
    {k \in 1 .. Len(drawQueue.commands) : drawQueue.commands[k].pass = pass}

\* Event k executes a command for every shadow batch of split (l, s).
ExecutesSplit(k, l, s) ==
    /\ submitted[k].event = "Execute"
    /\ submitted[k].light = l
    /\ submitted[k].split = s
    /\ \A b \in 1 .. Len(collected.visibleLights[l][s]) :
        \E j \in 1 .. Len(submitted[k].commands) :
            LET c == submitted[k].commands[j]
            IN c.pass = "shadow" /\ c.light = l /\ c.split = s /\ c.batch = b

\* C16: in a Render frame every shadow split's draw commands are executed
\* before the output render target is cleared and before any base-pass draw
\* is queued, and every base-pass draw is queued before any per-light draw.
C16_ThreeStages ==
    /\ \A k \in EventPositions("Clear") :
        /\ \A ls \in FrameSplits :
            \E j \in 1 .. k - 1 : ExecutesSplit(j, ls[1], ls[2])
        /\ \A j \in 1 .. k - 1 : submitted[j].event # "Clear"
    /\ \A j \in EventPositions("BeginShadowMap") :
        \A k \in EventPositions("Clear") : j < k
    /\ QueuedOf("base") \cup QueuedOf("light") # {}
        => EventPositions("Clear") # {}
    /\ \A i \in QueuedOf("light") : \A j \in QueuedOf("base") : j < i
    /\ QueuedOf("light") # {}
        => Cardinality(QueuedOf("base")) = Len(collected.baseBatches)

\* A finished frame that had shadow batches, base batches and light batches.
C16_Witness ==
    /\ renderPc.stage = "done"
    /\ \E ls \in FrameSplits : Len(collected.visibleLights[ls[1]][ls[2]]) > 0
    /\ QueuedOf("base") # {}
    /\ QueuedOf("light") # {}

\* Event k executes exactly the shadow batches of split (l, s), one command
\* each, in their order.
ExecutesOnlySplit(k, l, s) ==
    /\ submitted[k].event = "Execute"
    /\ submitted[k].light = l
    /\ submitted[k].split = s
    /\ Len(submitted[k].commands) = Len(collected.visibleLights[l][s])
    /\ \A b \in 1 .. Len(submitted[k].commands) :
        LET c == submitted[k].commands[b]
        IN /\ c.pass = "shadow" /\ c.light = l /\ c.split = s /\ c.batch = b
           /\ c.material = collected.visibleLights[l][s][b]

\* C17: there is one shadow pass per (visible light, split); the Execute
\* that follows BeginShadowMap of a split executes exactly one command per
\* batch of that split's shadow-batch list and no command of an earlier
\* split or light.
C17_OneShadowPassPerSplit ==
    /\ \A k \in EventPositions("BeginShadowMap") :
        /\ <<submitted[k].light, submitted[k].split>> \in FrameSplits
        /\ k < Len(submitted)
            => ExecutesOnlySplit(k + 1, submitted[k].light, submitted[k].split)
        /\ \A j \in EventPositions("BeginShadowMap") :
            (submitted[j].light = submitted[k].light
                /\ submitted[j].split = submitted[k].split) => j = k
    /\ EventPositions("Clear") # {}
        => \A ls \in FrameSplits :
            \E k \in EventPositions("BeginShadowMap") :
                submitted[k].light = ls[1] /\ submitted[k].split = ls[2]

\* The second split of a light was executed after a first split that had
\* shadow batches.
C17_Witness ==
    \E k \in EventPositions("Execute") :
        /\ submitted[k].split = 2
        /\ Len(submitted[k].commands) > 0
        /\ Len(collected.visibleLights[submitted[k].light][1]) > 0


\* C18: in every pass of Render the material's shader parameters and
\* textures are rebound for a batch only when its material differs from the
\* material of the previous batch of the pass; a batch that follows one with
\* the same material causes no rebinding.  Stated for the frames that have
\* a main light, whose Render has no undefined step.
C18_Original ==
    collected.mainLight # 0 =>
    \A k \in 2 .. Len(drawQueue.commands) :
        LET c == drawQueue.commands[k]
            previous == drawQueue.commands[k - 1]
        IN (c.pass = previous.pass /\ c.material = previous.material)
            => ~c.materialBound

\* C19: the base pass draws every sorted base batch exactly once and reads
\* the main light only if there is one: without a main light Render still
\* runs to its end and queues the base draws without reading a light.
C19_Original ==
    /\ renderPc.stage # "undefined"
    /\ \A k \in QueuedOf("base") :
        \/ collected.mainLight # 0
        \/ \A j \in 1 .. Len(drawQueue.commands[k].calls) :
            drawQueue.commands[k].calls[j].group # "SP_LIGHT"
    /\ \A k, j \in QueuedOf("base") :
        drawQueue.commands[k].batch = drawQueue.commands[j].batch => k = j
    /\ renderPc.stage \in {"light", "execute", "done"}
        => {drawQueue.commands[k].batch : k \in QueuedOf("base")}
            = 1 .. Len(collected.baseBatches)

\* Group `group` was filled while command c was prepared.
Filled(c, group) ==
    \E j \in 1 .. Len(c.calls) :
        c.calls[j].call = "Commit" /\ c.calls[j].group = group

\* The object a globally shared group is filled from for command c:
\* frameInfo_ and the zone are the same for every draw of the frame.
GroupSource(c, group) ==
    IF group = "SP_CAMERA" THEN c.camera ELSE <<0, 0>>

\* The calls of one draw follow begin -> add -> commit.
FollowsProtocol(calls) ==
    \A j \in 1 .. Len(calls) :
        /\ calls[j].call = "Add"
            => /\ j > 1
               /\ calls[j - 1].call = "Begin"
               /\ calls[j - 1].group = calls[j].group
               /\ calls[j - 1].ok
        /\ (calls[j].call = "Begin" /\ calls[j].ok)
            => /\ j + 2 <= Len(calls)
               /\ calls[j + 1].call = "Add"
               /\ calls[j + 2].call = "Commit"
               /\ calls[j + 2].group = calls[j].group
        /\ (calls[j].call = "Begin" /\ ~calls[j].ok)
            => /\ j < Len(calls)
               /\ calls[j + 1].call \notin {"Add", "Commit"}
        /\ calls[j].call = "Commit"
            => /\ j > 2
               /\ calls[j - 2].call = "Begin"
               /\ calls[j - 2].group = calls[j].group
               /\ calls[j - 2].ok

\* C20: parameters are added to a group only after its Begin returned true,
\* each such Begin is followed by exactly one Commit of the same group
\* before another group begins or the draw is issued, and the frame, camera
\* and zone groups are filled again for a draw only when their source
\* differs from that of the previous draw call in the queue.
C20_BeginAddCommit ==
    \A k \in 1 .. Len(drawQueue.commands) :
        LET c == drawQueue.commands[k]
        IN /\ FollowsProtocol(c.calls)
           /\ c.calls[Len(c.calls)].call = "DrawIndexed"
           /\ \A group \in {"SP_FRAME", "SP_CAMERA", "SP_ZONE"} :
                (k > 1 /\ Filled(c, group))
                    => GroupSource(drawQueue.commands[k - 1], group)
                        # GroupSource(c, group)

\* A queue whose first draw filled the three shared groups and whose second
\* draw, from the same frame, camera and zone, filled none of them.
C20_Witness ==
    /\ Len(drawQueue.commands) >= 2
    /\ \A group \in {"SP_FRAME", "SP_CAMERA", "SP_ZONE"} :
        /\ Filled(drawQueue.commands[1], group)
        /\ ~Filled(drawQueue.commands[2], group)
    /\ Filled(drawQueue.commands[2], "SP_OBJECT")


\* ---------------------------------------------------------------- Define

\* C21: Define returns false exactly when the viewport has no scene, no
\* camera, or the scene has no octree; it never ends in a fatal error, and
\* when it fails the drawable count, render target and viewport of the
\* previous successful Define are left as they were.
C21_Original ==
    defineCall.op = "Define" =>
        /\ defineCall.result \in {"true", "false"}
        /\ defineCall.result = "false"
            <=> (\/ ~defineCall.viewport.scene
                 \/ ~defineCall.viewport.camera
                 \/ ~defineCall.viewport.octree)
        /\ defineCall.result = "false"
            => /\ definedView.numDrawables_ = defineCall.before.numDrawables_
               /\ definedView.renderTarget_ = defineCall.before.renderTarget_
               /\ definedView.viewport_ = defineCall.before.viewport_


\* --------------------------------------------- Render: failures and frames

\* C22: a batch whose pipeline state is null is skipped: no draw command
\* is queued for it, and by the end of the frame every other base and light
\* batch has its draw command.
C22_Original ==
    /\ \A k \in 1 .. Len(drawQueue.commands) :
        drawQueue.commands[k].pipelineState
    /\ renderPc.stage = "done"
        => \A batch \in BatchesOf(collected) \ {collected.nullState} :
            batch[1] # "shadow"
                => \E k \in 1 .. Len(drawQueue.commands) :
                    LET c == drawQueue.commands[k]
                    IN <<c.pass, c.light, c.split, c.batch>> = batch

\* C24: in every frame the shadow-map allocator is reset once, before any
\* shadow map of the frame is allocated or begun, and BeginShadowMap only
\* gets shadow maps allocated after that reset, each its own.
C24_AllocatorResetPerFrame ==
    /\ shadowMapAllocator.resets = collected.frameNumber
    /\ \A l \in DOMAIN collected.shadowMaps :
        \A s \in DOMAIN collected.shadowMaps[l] :
            /\ collected.shadowMaps[l][s].frame = shadowMapAllocator.resets
            /\ collected.shadowMaps[l][s].slot \in 1 .. shadowMapAllocator.allocated
    /\ \A k \in 1 .. Len(shadowMapAllocator.begun) :
        /\ shadowMapAllocator.begun[k].frame = shadowMapAllocator.resets
        /\ shadowMapAllocator.begun[k].slot \in 1 .. shadowMapAllocator.allocated
        /\ \A j \in 1 .. k - 1 :
            shadowMapAllocator.begun[j] # shadowMapAllocator.begun[k]

\* The second frame's Render began the shadow maps of two splits.
C24_Witness ==
    /\ collected.frameNumber = 2
    /\ Len(shadowMapAllocator.begun) = 2
    /\ renderPc.stage = "done"


\* --------------------------------------------------------------- textures

\* C23: LoadTexture of a missing resource outputs the null handle, adds no
\* reference and leaves the size output untouched; ReleaseTexture of the
\* null handle does nothing; and every non-null handle handed out by
\* LoadTexture or GenerateTexture stands for exactly one reference, which
\* its ReleaseTexture removes.
C23_TextureReferences ==
    /\ (rml.call.op = "LoadTexture" /\ rml.call.source = "missing")
        => /\ rml.call.handle = 0
           /\ rml.call.sizeOut = rml.call.sizeBefore
           /\ rml.refs = rml.call.refsBefore
    /\ (rml.call.op = "ReleaseTexture" /\ rml.call.handle = 0)
        => rml.refs = rml.call.refsBefore
    /\ (rml.call.op = "ReleaseTexture" /\ rml.call.handle # 0)
        => rml.refs = [rml.call.refsBefore EXCEPT ![rml.call.handle] = @ - 1]
    /\ (rml.call.op \in {"LoadTexture", "GenerateTexture"} /\ rml.call.handle # 0)
        => rml.refs = [rml.call.refsBefore EXCEPT ![rml.call.handle] = @ + 1]
    /\ \A t \in TextureIds :
        /\ rml.refs[t] = rml.held[t] + (IF t = 1 THEN 1 ELSE 0)
        /\ t \in rml.alive <=> rml.refs[t] > 0

\* A lookup of a missing resource, with a size output that held values,
\* while a loaded texture is held and every generated one was released.
C23_Witness ==
    /\ rml.call.op = "LoadTexture"
    /\ rml.call.source = "missing"
    /\ rml.held[1] > 0
    /\ rml.alive = {1}
    /\ rml.call.sizeBefore = <<7, 7>>


\* ------------------------------------------------ ShaderParameterStorage

\* The sum of the first n entries of a sequence of numbers.
RECURSIVE SumTo(_, _)
SumTo(numbers, n) == IF n = 0 THEN 0 ELSE SumTo(numbers, n - 1) + numbers[n]

\* C25: after any sequence of AddParameter calls the name, index, offset
\* and size arrays have one entry per added parameter, the offsets start
\* at 0 and each is the previous offset plus the previous size, the sizes
\* are 1, 3, 3, 4 by type, the data buffer is as long as the sizes' sum,
\* and the rows of each value lie at [offset, offset + size).
C25_StorageLayout ==
    LET st == storage.vectors
        n == Len(storage.added)
    IN /\ Len(st.names_) = n
       /\ Len(st.indices_) = n
       /\ Len(st.dataOffsets_) = n
       /\ Len(st.dataSizes_) = n
       /\ n > 0 => st.dataOffsets_[1] = 0
       /\ \A i \in 1 .. n - 1 :
            st.dataOffsets_[i + 1] = st.dataOffsets_[i] + st.dataSizes_[i]
       /\ Len(st.data_) = SumTo(st.dataSizes_, n)
       /\ \A i \in 1 .. n :
            /\ st.names_[i] = storage.added[i].name
            /\ st.dataSizes_[i] =
                (CASE storage.added[i].type = "Vector4" -> 1
                   [] storage.added[i].type \in {"Matrix3", "Matrix3x4"} -> 3
                   [] storage.added[i].type = "Matrix4" -> 4)
            /\ \A r \in 0 .. st.dataSizes_[i] - 1 :
                /\ st.dataOffsets_[i] + r + 1 <= Len(st.data_)
                /\ st.data_[st.dataOffsets_[i] + r + 1].value = storage.added[i].value
                /\ st.data_[st.dataOffsets_[i] + r + 1].row = r

\* A Matrix4, a Matrix3 and a Vector4 were added, in this order.
C25_Witness ==
    /\ Len(storage.added) = 3
    /\ storage.added[1].type = "Matrix4"
    /\ storage.added[2].type = "Matrix3"
    /\ storage.added[3].type = "Vector4"

\* C26: the storage is append-only: a step changes no name, index, offset,
\* size or data of a parameter added before, and GetNextParameterOffset
\* does not decrease.
C26_AppendOnly ==
    [][LET old == storage.vectors
           new == storage'.vectors
       IN /\ GetNextParameterOffset(new) >= GetNextParameterOffset(old)
          /\ \A i \in 1 .. Len(old.names_) :
                /\ new.names_[i] = old.names_[i]
                /\ new.indices_[i] = old.indices_[i]
                /\ new.dataOffsets_[i] = old.dataOffsets_[i]
                /\ new.dataSizes_[i] = old.dataSizes_[i]
          /\ Len(new.data_) >= Len(old.data_)
          /\ \A j \in 1 .. Len(old.data_) : new.data_[j] = old.data_[j]]_vars

\* A parameter was added after a Matrix3x4 already lay in the buffer.
C26_Witness ==
    /\ Len(storage.added) >= 2
    /\ storage.added[1].type = "Matrix3x4"
    /\ GetNextParameterOffset(storage.vectors) = Len(storage.added)


\* ----------------------------------------------------------- BatchRenderer

\* The number of calls of `op` among the first n calls made.
CountCalls(op, n) ==
    Cardinality({i \in 1 .. n : batchRenderer.calls[i] = op})

\* The position of the k-th call of `op`, 0 for k = 0.
KthCall(op, k) ==
    IF k = 0 THEN 0
    ELSE CHOOSE i \in 1 .. Len(batchRenderer.calls) :
            batchRenderer.calls[i] = op /\ CountCalls(op, i) = k

\* C27: every committed instance descriptor covers the instance parameters
\* added since the previous CommitInstance; every committed group
\* descriptor covers the group parameters added and the instances
\* committed since the previous CommitGroup; right after a commit the
\* accumulator has zero counts and starts at the next free offset.
C27_Original ==
    LET b == batchRenderer
        n == Len(b.calls)
    IN /\ Len(b.instances_) = CountCalls("CommitInstance", n)
       /\ Len(b.groups_) = CountCalls("CommitGroup", n)
       /\ \A k \in 1 .. Len(b.instances_) :
            LET from == KthCall("CommitInstance", k - 1)
                to == KthCall("CommitInstance", k)
            IN /\ b.instances_[k].parameterOffset_ =
                    CountCalls("AddInstanceParameter", from)
               /\ b.instances_[k].numParameters_ =
                    CountCalls("AddInstanceParameter", to)
                        - CountCalls("AddInstanceParameter", from)
       /\ \A k \in 1 .. Len(b.groups_) :
            LET from == KthCall("CommitGroup", k - 1)
                to == KthCall("CommitGroup", k)
            IN /\ b.groups_[k].parameterOffset_ =
                    CountCalls("AddGroupParameter", from)
               /\ b.groups_[k].numParameters_ =
                    CountCalls("AddGroupParameter", to)
                        - CountCalls("AddGroupParameter", from)
               /\ b.groups_[k].instanceOffset_ = CountCalls("CommitInstance", from)
               /\ b.groups_[k].numInstances_ =
                    CountCalls("CommitInstance", to)
                        - CountCalls("CommitInstance", from)
       /\ (n > 0 /\ b.calls[n] = "CommitInstance") =>
            b.currentInstance_ =
                [parameterOffset_ |-> GetNextParameterOffset(b.instanceParameters_),
                 numParameters_ |-> 0]
       /\ (n > 0 /\ b.calls[n] = "CommitGroup") =>
            b.currentGroup_ =
                [parameterOffset_ |-> GetNextParameterOffset(b.groupParameters_),
                 numParameters_ |-> 0,
                 instanceOffset_ |-> Len(b.instances_),
                 numInstances_ |-> 0]


\* ------------------------------------------------------- caches kept on

\* The frame's caches were just reset and nothing is dispatched yet.
JustReset == pc = "dispatch" /\ workItemIndex = 0

\* The Z range of a per-worker cache that has seen no geometry.
EmptyZRange ==
    IF impl = "CustomView" THEN InvalidRange
    ELSE <<M_LARGE_VALUE, 0 - M_LARGE_VALUE>>

\* C28: right after the reset at the start of a frame, whatever the caches
\* held from earlier frames, the trait array has numDrawables entries, all
\* zero, the Z-range array has numDrawables entries, and there is one
\* per-worker cache per thread, each with empty geometry and light lists
\* and an empty Z range; this holds for DrawableCachePerViewport::Reset
\* and for ViewRenderer::Update alike.
C28_ResetClearsCaches ==
    JustReset =>
        /\ DOMAIN drawableTraits = 0 .. numDrawables_ - 1
        /\ \A d \in DOMAIN drawableTraits : drawableTraits[d] = 0
        /\ DOMAIN drawableZRanges = 0 .. numDrawables_ - 1
        /\ DOMAIN visibleDrawables = 0 .. numThreads_ - 1
        /\ \A t \in DOMAIN visibleDrawables :
            /\ visibleDrawables[t].geometries = <<>>
            /\ visibleDrawables[t].lights = <<>>
            /\ visibleDrawables[t].zRange = EmptyZRange

\* A DrawableCachePerViewport was just reset that an earlier frame had
\* filled: the Z-range array still holds a range that frame computed.
C28_Witness ==
    /\ JustReset
    /\ impl = "CustomView"
    /\ numDrawables_ >= 1
    /\ \E d \in DOMAIN drawableZRanges :
        drawableZRanges[d] \notin {InvalidRange, <<0, 0>>}

\* C30: after a frame's primary-drawable processing the Z-range entry of
\* every drawable that is not visible in that frame is invalid, also when
\* an earlier frame using the same cache saw it visible.  (A
\* value-initialised pair of ViewRenderer is counted as invalid.)
C30_Original ==
    pc = "returned" =>
        \A d \in DOMAIN scene \cap DOMAIN drawableZRanges :
            d \notin Queried =>
                \/ drawableZRanges[d][1] > drawableZRanges[d][2]
                \/ impl = "ViewRenderer" /\ drawableZRanges[d] = <<0, 0>>


\* --------------------------------------------------------------------- UI2

\* C29: between two consecutive begin-frame events the Rml context is
\* rendered at most once, however many times UI2::Render is called and
\* whether or not the end-all-views-render event fires.
C29_Original ==
    \A f \in 2 .. Len(ui.rendered) : ui.rendered[f] <= 1


\* C39: the index and the element count the storage records for a
\* parameter are the index passed to AddParameter and the row count of the
\* value, for every unsigned index (nothing wraps around modulo 256).
C39_Original ==
    \A i \in 1 .. Len(storage.added) :
        /\ storage.vectors.indices_[i] = storage.added[i].index
        /\ storage.vectors.dataSizes_[i] = ParameterSize(storage.added[i].type)


\* ------------------------------------------- the two implementations

\* The view-space Z range of a geometry as the scene and camera give it,
\* the sentinel for an "infinite" one.
SceneZRange(d) ==
    LET box == KindOf(scene[d]).box
        centerZ == DotProduct(camera.viewZ, BoxCenter(box)) + camera.m23
        edgeZ == DotProduct(VecAbs(camera.viewZ), BoxHalfSize(box))
    IN IF IsInfinite(d) THEN SentinelRange ELSE <<centerZ - edgeZ, centerZ + edgeZ>>

\* The visible geometries that are not "infinite".
FiniteGeometries == {d \in ExpectedGeometries : ~IsInfinite(d)}

\* The aggregate Z range of the frame: the union of the workers' ranges.
RECURSIVE AggregateFrom(_, _)
AggregateFrom(workers, t) ==
    IF t + 1 \notin DOMAIN workers THEN workers[t].zRange
    ELSE RangeUnion(workers[t].zRange, AggregateFrom(workers, t + 1))
AggregateZRange == AggregateFrom(visibleDrawables, 0)

\* The per-drawable results on which the two implementations must agree:
\* each is a function of the query result, the scene and the camera only.
SameVisibleSets ==
    /\ ListedSet("geometries") = ExpectedGeometries
    /\ ListedSet("lights") = ExpectedLights
    /\ \A d \in ExpectedGeometries : drawableZRanges[d] = SceneZRange(d)

C38_Original ==
    /\ [](IF scissor.call.op = "none" THEN TRUE
          ELSE scissor.scissor_ =
                [left_ |-> scissor.call.args.x,
                 top_ |-> scissor.call.args.y,
                 right_ |-> scissor.call.args.x + scissor.call.args.width,
                 bottom_ |-> scissor.call.args.y + scissor.call.args.height])
    /\ [][scissor'.draw # scissor.draw =>
            scissor'.draw.scissorTest = scissor.scrissorEnabled_]_vars


\* ----------------------------------------------------- UI2: initialisation

\* C31: for any sequence of construction and screen-mode events the Rml
\* library and context are created at most once and not before Graphics is
\* initialised, initialized_ is true exactly when the context exists, and
\* no input handler is subscribed before the context exists.
C31_InitializedOnce ==
    /\ ui.contexts <= 1
    /\ ui.contexts = 1 => ui.graphicsInitialized /\ ui.constructed
    /\ ui.initialized_ = ui.rmlContext_
    /\ ui.rmlContext_ = (ui.contexts = 1)
    /\ ui.subscribed => ui.rmlContext_
    /\ Len(input.forwarded) > 0 => ui.rmlContext_

\* UI2 was constructed before the screen mode was set, the first
\* screen-mode event initialised it and a second one arrived later.
C31_Witness ==
    /\ ui.constructed
    /\ ui.screenModes = 2
    /\ ui.contexts = 1
    /\ ui.initialized_

\* C35: every button-up UI2 forwards on a touch end was preceded by a
\* forwarded button-down of the same touch, with no other button-up of
\* that touch in between.
C35_Original ==
    \A i \in 1 .. Len(input.forwarded) :
        input.forwarded[i].op = "ProcessMouseButtonUp" =>
            \E j \in 1 .. i - 1 :
                /\ input.forwarded[j].op = "ProcessMouseButtonDown"
                /\ input.forwarded[j].touch = input.forwarded[i].touch
                /\ \A k \in j + 1 .. i - 1 :
                    ~(/\ input.forwarded[k].op = "ProcessMouseButtonUp"
                      /\ input.forwarded[k].touch = input.forwarded[i].touch)


\* --------------------------------------------------- shadow shader defines

\* C34: a pipeline state whose shaders carry the defines SHADOW and
\* SIMPLE_SHADOW was created for a light for which HasShadow returned
\* true in the same frame.
C34_Original ==
    IF shadowCall = NoCall \/ Len(pipelineCalls) = 0 THEN TRUE
    ELSE LET defines == pipelineCalls[Len(pipelineCalls)].desc.pixelShader.defines
         IN (\E i \in 1 .. Len(defines) : defines[i] = "SHADOW")
                => shadowCall.result


\* ------------------------------------------ Render: material after a Reset

\* C33: the first draw command queued after a Reset of the draw queue has
\* its material's parameter group and its material's textures committed to
\* the queue before it, in the shadow passes also when the batch uses the
\* material of the last batch of the split or light before.
C33_Original ==
    Len(drawQueue.commands) > 0 =>
        LET c == drawQueue.commands[1]
        IN /\ c.materialBound
           /\ \E i \in 1 .. Len(c.calls) :
                /\ c.calls[i].call = "Commit"
                /\ c.calls[i].group = "SP_MATERIAL"
           /\ \E i \in 1 .. Len(c.calls) :
                c.calls[i].call = "CommitShaderResources"


\* ------------------------------------------- GeneratorContext::ParseFiles

\* C36: whenever ParseFiles is between two source directories or has
\* returned, every work item queued so far has completed and the parsed map
\* holds exactly the included files that parsed without error, under every
\* interleaving of the worker threads; no work item runs once the mutex and
\* the lambda of its directory are gone.
C36_ParsedExactlyAndWaited ==
    /\ ~parse.racing
    /\ parse.pc \in {"scan", "done"} =>
        /\ \A i \in 1 .. Len(parse.items) : parse.items[i].pc = "completed"
        /\ parse.parsed_ = parse.expected
    /\ ~parse.mAlive =>
        \A i \in 1 .. Len(parse.items) : parse.items[i].pc = "completed"

\* ParseFiles returned after an item had to wait for the mutex another
\* item held, with a file that failed or was excluded in the last directory.
C36_Witness ==
    /\ parse.pc = "done"
    /\ parse.contended
    /\ Cardinality(parse.parsed_) >= 2
    /\ \E k \in 1 .. Len(parse.sourceFiles) : parse.sourceFiles[k] # "ok"


\* --------------------------------------------- GeneratorContext::Generate

\* Whether the call `next` on a pass may follow the call `prev`: a pass
\* starts first of all or after the Stop of the pass before it, the first
\* API pass after the last C++ AST pass; the files of a C++ AST pass follow
\* each other as StartFile, visits, StopFile; Stop follows the last file,
\* or Start when there are no files or the pass is an API pass.
CallFollows(prev, next) ==
    LET same(op, file) ==
            /\ prev.kind = next.kind
            /\ prev.pass = next.pass
            /\ prev.op = op
            /\ prev.file = file
    IN CASE next.op = "Start" ->
              \/ /\ next.pass > 1
                 /\ prev = PassCall(next.kind, next.pass - 1, "Stop", 0)
              \/ /\ next.pass = 1
                 /\ IF next.kind = "cpp" \/ generate.numCpp = 0
                    THEN prev.kind = "none"
                    ELSE prev = PassCall("cpp", generate.numCpp, "Stop", 0)
         [] next.op = "StartFile" ->
              /\ next.kind = "cpp"
              /\ IF next.file = 1 THEN same("Start", 0)
                 ELSE same("StopFile", next.file - 1)
         [] next.op \in {"Visit", "StopFile"} ->
              /\ next.kind = "cpp"
              /\ same("StartFile", next.file) \/ same("Visit", next.file)
         [] next.op = "Stop" ->
              IF next.kind = "api" \/ generate.numFiles = 0
              THEN same("Start", 0)
              ELSE same("StopFile", generate.numFiles)
         [] OTHER -> FALSE

\* The index of the first Visit call after call k of the running traversal
\* that is no deeper in the recursion than call k; 0 if there is none yet.
BlockEnd(k) ==
    LET V == generate.visits
        ends == {x \in k + 1 .. Len(V) : V[x].depth <= V[k].depth}
    IN IF ends = {} THEN 0 ELSE CHOOSE x \in ends : \A y \in ends : x <= y

\* The entities visited (entered, or visited as leaves) one level below
\* call k, up to the end of its block.
VisitedBelow(k) ==
    LET V == generate.visits
        upTo == IF BlockEnd(k) = 0 THEN Len(V) ELSE BlockEnd(k) - 1
        below == SelectSeq(SubSeq(V, k + 1, upTo),
                           LAMBDA c : /\ c.depth = V[k].depth + 1
                                      /\ c.event # "container_entity_exit")
    IN [i \in 1 .. Len(below) |-> below[i].entity]

\* C37: the calls on the passes follow each other as Start, visits, Stop,
\* pass after pass, all C++ AST passes before all API passes, with
\* StartFile, visits, StopFile for each file; Generate returns after the
\* Stop of the last pass.  In the overlay traversal of an API pass, a
\* container whose enter-visit returned true is followed by the visits of
\* the children it had when that visit returned, in order, and then by
\* exactly one exit; a container whose enter-visit returned false and a
\* leaf are followed by no visit below them and by no exit.  ("Present at
\* enter time" is read as: present when the enter-visit returns.)
C37_PassesAndTraversal ==
    /\ [][generate'.tick # generate.tick
            => CallFollows(generate.last, generate'.last)]_vars
    /\ [](LET V == generate.visits
          IN /\ generate.pc = "done" /\ generate.numCpp + generate.numApi > 0 =>
                 generate.last =
                     IF generate.numApi > 0
                     THEN PassCall("api", generate.numApi, "Stop", 0)
                     ELSE PassCall("cpp", generate.numCpp, "Stop", 0)
             /\ Len(V) > 0 =>
                 /\ generate.last = PassCall("api", generate.pass, "Start", 0)
                 /\ V[1].entity = ApiRoot
                 /\ V[1].depth = 1
                 /\ BlockEnd(1) # 0 => BlockEnd(1) = Len(V)
             /\ \A k \in 1 .. Len(V) :
                 /\ V[k].pass = generate.pass
                 /\ IF V[k].event = "container_entity_enter" /\ V[k].result
                    THEN IF BlockEnd(k) = 0
                         THEN /\ Len(generate.stack) >= V[k].depth
                              /\ Len(VisitedBelow(k)) <= Len(V[k].children)
                              /\ VisitedBelow(k) =
                                   SubSeq(V[k].children, 1, Len(VisitedBelow(k)))
                         ELSE /\ VisitedBelow(k) = V[k].children
                              /\ V[BlockEnd(k)].event = "container_entity_exit"
                              /\ V[BlockEnd(k)].entity = V[k].entity
                              /\ V[BlockEnd(k)].depth = V[k].depth
                    ELSE IF V[k].event = "container_entity_exit"
                    THEN \E j \in 1 .. k - 1 :
                            /\ V[j].event = "container_entity_enter"
                            /\ V[j].result
                            /\ BlockEnd(j) = k
                    ELSE k < Len(V) =>
                            /\ V[k + 1].depth <= V[k].depth
                            /\ V[k + 1].event = "container_entity_exit"
                                  => V[k + 1].depth < V[k].depth)

\* The second API pass, after a C++ AST pass over a file, finished a
\* traversal in which a container with two or more children was entered
\* and left, another container's enter-visit returned false, and a leaf
\* was visited.
C37_Witness ==
    LET V == generate.visits
    IN /\ generate.pc = "overlay"
       /\ generate.stack = <<>>
       /\ generate.pass = 2
       /\ generate.numCpp >= 1
       /\ generate.numFiles >= 1
       /\ \E k \in 1 .. Len(V) :
            /\ V[k].event = "container_entity_enter"
            /\ V[k].result
            /\ Len(V[k].children) >= 2
            /\ BlockEnd(k) # 0
       /\ \E k \in 1 .. Len(V) :
            V[k].event = "container_entity_enter" /\ ~V[k].result
       /\ \E k \in 1 .. Len(V) : V[k].event = "leaf_entity"

====
